---- MODULE Spec2Model ----
(***************************************************************************)
(* A model of compute_loc_changes.py: the CLOC report model (CLOCReport),  *)
(* the counter invocation with its on-disk cache (run_cloc, _parse_json)   *)
(* and the linear pipeline of the module's top level.                      *)
(*                                                                         *)
(* Three specifications share the definitions:                             *)
(*   SpecReport  CLOCReport construction and its derived properties, on    *)
(*               constructor arguments drawn from bounded sets;            *)
(*   SpecCloc    repeated run_cloc calls of one descriptor over a reports  *)
(*               directory;                                                *)
(*   Spec        the top-level pipeline, from the counting loop to the     *)
(*               write of changes-macros.tex.                              *)
(*                                                                         *)
(* Python values: a dict is a function on strings (a record), None is the  *)
(* record None, an exception is the name of its class in a field exc.      *)
(* A float ratio a / b is kept as the pair of integers it is computed      *)
(* from; comparisons are made by cross-multiplication.                     *)
(***************************************************************************)
EXTENDS Integers, Sequences, FiniteSets, TLC

VARIABLES
    args,       \* SpecReport: the arguments the CLOCReport constructor is given;
                \* SpecCombine: the arguments of the combine calls made so far
    report,     \* SpecReport: the constructed report (None before / on failure)
    printed,    \* what the last print_info call wrote (None: nothing)
    error,      \* the exception that ended the last operation ("none": none)
    pc,         \* the position of the running specification
    projects,   \* the registry: the sequence of project descriptors
    fs,         \* the reports directory
    call,       \* the last run_cloc call: what it did and what it returned
    idx,        \* Spec: the position of the running loop in its list
    reports,    \* Spec: the list reports
    missing_projects,   \* Spec: the set missing_projects
    total,      \* Spec: the SummaryReport total (None before line 931)
    subset_totals,      \* Spec: the defaultdict subset_totals
    outputs,    \* Spec: the files written into this_dir, with what they hold
    macro_defs, \* Spec: the macro definitions accumulated in macro_defs
    ensure_unique_project_names     \* Spec: the set of line 1003

\* the state of the top-level pipeline
pipelineVars ==
    <<idx, reports, missing_projects, total, subset_totals, outputs, macro_defs,
      ensure_unique_project_names>>

vars == <<args, report, printed, error, pc, projects, fs, call, pipelineVars>>

None == [isNone |-> TRUE]

(***************************************************************************)
(* Bounds of the model.                                                    *)
(***************************************************************************)
\* the largest line / file count of a diff partition in SpecReport
MaxCount == 1

\* the number of run_cloc calls of a behaviour of SpecCloc
MaxCalls == 2

\* the largest number of descriptors of a registry of Spec
MaxProjects == 2

\* the number of combine calls of a behaviour of SpecCombine
MaxCombines == 3

(***************************************************************************)
(* Small helpers.                                                          *)
(***************************************************************************)
Range(s) == {s[i] : i \in 1..Len(s)}

RECURSIVE Reverse(_)
Reverse(s) == IF s = <<>> THEN <<>> ELSE Reverse(Tail(s)) \o <<Head(s)>>

(***************************************************************************)
(* ClocSummary, ClocDiff (lines 39-60) and dacite.from_dict on them.       *)
(***************************************************************************)
SummaryFields == {"blank", "comment", "code", "nFiles"}

ClocSummary(blank, comment, code, nFiles) ==
    [blank |-> blank, comment |-> comment, code |-> code, nFiles |-> nFiles]

DiffFields == {"removed", "added", "modified", "same"}

ClocDiff(removed, added, modified, same) ==
    [removed |-> removed, added |-> added, modified |-> modified, same |-> same]

\* dacite.from_dict(ClocSummary, d): every field is required, other keys are ignored
IsSummaryDict(d) == SummaryFields \subseteq DOMAIN d

from_dict_ClocSummary(d) == ClocSummary(d.blank, d.comment, d.code, d.nFiles)

IsDiffDict(d) ==
    /\ DiffFields \subseteq DOMAIN d
    /\ \A k \in DiffFields : IsSummaryDict(d[k])

from_dict_ClocDiff(d) ==
    ClocDiff(from_dict_ClocSummary(d.removed), from_dict_ClocSummary(d.added),
             from_dict_ClocSummary(d.modified), from_dict_ClocSummary(d.same))

(***************************************************************************)
(* CLOCReport (lines 63-250).                                              *)
(***************************************************************************)
\* the three tracked languages, in the order _parse_languages inserts them
TrackedLanguages == <<"Assembly", "C", "C++">>

\* a Python dict whose order matters (languages, language_ratios) is the
\* sequence of its <<key, value>> items in insertion order
Keys(items) == {items[i][1] : i \in 1..Len(items)}

\* _parse_languages: each tracked language of the document is inserted, in the
\* order of line 79, with its "code" entry (0 when the entry has no "code" key)
RECURSIVE parse_languages_from(_, _)
parse_languages_from(data, langs) ==
    IF langs = <<>> THEN <<>>
    ELSE LET lang == Head(langs)
             rest == parse_languages_from(data, Tail(langs)) IN
         IF lang \in DOMAIN data
         THEN <<<<lang, IF "code" \in DOMAIN data[lang] THEN data[lang].code ELSE 0>>>>
              \o rest
         ELSE rest

parse_languages(data) == parse_languages_from(data, TrackedLanguages)

\* changed_loc_abs on a diff (None or a ClocDiff)
diff_changed_loc_abs(diff) ==
    IF diff = None THEN 0
    ELSE diff.modified.code + diff.added.code + diff.removed.code

\* changed_files_abs on a diff: only the modified files are looked at
diff_changed_files_abs_all_partitions(diff) ==
    IF diff = None THEN 0
    ELSE diff.modified.nFiles + diff.added.nFiles + diff.removed.nFiles

diff_changed_files_abs(diff) ==
    IF diff = None THEN 0 ELSE diff.modified.nFiles

changed_loc_abs(r) == diff_changed_loc_abs(r.diff)

changed_files_abs(r) == diff_changed_files_abs(r.diff)

\* __post_init__, lines 93-97: a diff with no changed line has no changed file
normalize_diff_never(diff) == diff

normalize_diff(diff) ==
    IF diff_changed_loc_abs(diff) = 0 /\ diff_changed_files_abs(diff) # 0
    THEN [diff EXCEPT !.modified.nFiles = 0]
    ELSE diff

\* the assert of line 97, on the normalized diff
post_init_assert_ok(diff) ==
    diff_changed_loc_abs(diff) = 0 /\ diff_changed_files_abs(diff) # 0
        => diff_changed_files_abs(normalize_diff(diff)) = 0

\* the first exception __post_init__ raises on these arguments ("none": none)
post_init_exc_cheri_required(baseline_raw, cheri_raw, diff_raw) ==
    IF baseline_raw = None THEN "AttributeError"
    ELSE IF "SUM" \notin DOMAIN baseline_raw THEN "KeyError"
    ELSE IF ~IsSummaryDict(baseline_raw.SUM) THEN "MissingValueError"
    ELSE IF cheri_raw = None THEN "TypeError"
    ELSE IF "SUM" \notin DOMAIN cheri_raw THEN "KeyError"
    ELSE IF ~IsSummaryDict(cheri_raw.SUM) THEN "MissingValueError"
    ELSE IF diff_raw # None /\ "SUM" \notin DOMAIN diff_raw THEN "KeyError"
    ELSE IF diff_raw # None /\ ~IsDiffDict(diff_raw.SUM) THEN "MissingValueError"
    ELSE "none"

post_init_exc(baseline_raw, cheri_raw, diff_raw) ==
    IF baseline_raw = None THEN "AttributeError"    \* None.get, line 80
    ELSE IF "SUM" \notin DOMAIN baseline_raw THEN "KeyError"
    ELSE IF ~IsSummaryDict(baseline_raw.SUM) THEN "MissingValueError"
    ELSE IF cheri_raw # None /\ "SUM" \notin DOMAIN cheri_raw THEN "KeyError"
    ELSE IF cheri_raw # None /\ ~IsSummaryDict(cheri_raw.SUM)
         THEN "MissingValueError"
    ELSE IF diff_raw # None /\ "SUM" \notin DOMAIN diff_raw THEN "KeyError"
    ELSE IF diff_raw # None /\ ~IsDiffDict(diff_raw.SUM) THEN "MissingValueError"
    ELSE IF diff_raw # None
            /\ ~post_init_assert_ok(from_dict_ClocDiff(diff_raw.SUM))
         THEN "AssertionError"
    ELSE "none"

\* the fields of a CLOCReport after a __post_init__ that raised nothing
post_init_fields(project, baseline_raw, cheri_raw, diff_raw) ==
    [project      |-> project,
     baseline_raw |-> baseline_raw,
     cheri_raw    |-> cheri_raw,
     diff_raw     |-> diff_raw,
     languages    |-> parse_languages(baseline_raw),
     baseline     |-> from_dict_ClocSummary(baseline_raw.SUM),
     cheri        |-> IF cheri_raw = None THEN None
                      ELSE from_dict_ClocSummary(cheri_raw.SUM),
     diff         |-> IF diff_raw = None THEN None
                      ELSE normalize_diff(from_dict_ClocDiff(diff_raw.SUM))]

\* CLOCReport(project=..., baseline_raw=..., cheri_raw=..., diff_raw=...):
\* the exception of the constructor and, when there is none, the report
CLOCReport(project, baseline_raw, cheri_raw, diff_raw) ==
    LET exc == post_init_exc(baseline_raw, cheri_raw, diff_raw) IN
    [exc   |-> exc,
     value |-> IF exc = "none"
               THEN post_init_fields(project, baseline_raw, cheri_raw, diff_raw)
               ELSE None]

(***************************************************************************)
(* language_ratios, main_language (lines 146-167).                         *)
(***************************************************************************)
\* total = num_loc in place of total += num_loc
SumItems_last(items) == IF items = <<>> THEN 0 ELSE items[Len(items)][2]

RECURSIVE SumItems(_)
SumItems(items) == IF items = <<>> THEN 0 ELSE Head(items)[2] + SumItems(Tail(items))

\* ratio > 0.01 for ratio = num_loc / total, total > 0
ratio_displayed_at_least(num_loc, total_loc) == 100 * num_loc >= total_loc

ratio_displayed(num_loc, total_loc) == 100 * num_loc > total_loc

\* the items <<lang, num_loc, total_loc>> of the dict ratios (lines 152-156)
RECURSIVE displayed_ratios(_, _)
displayed_ratios(items, total_loc) ==
    IF items = <<>> THEN <<>>
    ELSE LET rest == displayed_ratios(Tail(items), total_loc) IN
         IF ratio_displayed(Head(items)[2], total_loc)
         THEN <<<<Head(items)[1], Head(items)[2], total_loc>>>> \o rest
         ELSE rest

\* a / b < c / d for ratio items <<key, a, b>>, <<key, c, d>> (b, d > 0)
ratio_less(x, y) == x[2] * y[3] < y[2] * x[3]

\* sorted(items, key=itemgetter(1)): stable, ascending by ratio
RECURSIVE insert_by_ratio(_, _)
insert_by_ratio(sorted, x) ==
    IF sorted = <<>> THEN <<x>>
    ELSE IF ratio_less(x, Head(sorted)) THEN <<x>> \o sorted
    ELSE <<Head(sorted)>> \o insert_by_ratio(Tail(sorted), x)

RECURSIVE sorted_by_ratio_from(_, _)
sorted_by_ratio_from(done, items) ==
    IF items = <<>> THEN done
    ELSE sorted_by_ratio_from(insert_by_ratio(done, Head(items)), Tail(items))

sorted_by_ratio(items) == sorted_by_ratio_from(<<>>, items)

\* language_ratios: the exception and the ordered dict, largest ratio first
language_ratios(languages) ==
    LET total_loc == SumItems(languages) IN
    IF languages # <<>> /\ total_loc = 0
    THEN [exc |-> "ZeroDivisionError", value |-> <<>>]
    ELSE [exc |-> "none",
          value |-> Reverse(sorted_by_ratio(displayed_ratios(languages, total_loc)))]

\* main_language: the first key of language_ratios, "????" when it has none
main_language(r) ==
    LET ratios == language_ratios(r.languages) IN
    IF ratios.exc # "none" THEN [exc |-> ratios.exc, value |-> "????"]
    ELSE IF ratios.value # <<>> THEN [exc |-> "none", value |-> ratios.value[1][1]]
    ELSE [exc |-> "none", value |-> "????"]

(***************************************************************************)
(* changed_loc_percent, changed_files_percent, print_info (112-144).       *)
(* 100.0 * (a / b) is the pair <<100 * a, b>>.                             *)
(***************************************************************************)
\* the changed share without the factor 100.0
changed_loc_percent_as_fraction(r) ==
    IF r.baseline.code = 0 THEN [exc |-> "ZeroDivisionError", value |-> <<0, 1>>]
    ELSE [exc |-> "none", value |-> <<changed_loc_abs(r), r.baseline.code>>]

changed_loc_percent(r) ==
    IF r.baseline.code = 0 THEN [exc |-> "ZeroDivisionError", value |-> <<0, 1>>]
    ELSE [exc |-> "none", value |-> <<100 * changed_loc_abs(r), r.baseline.code>>]

changed_files_percent(r) ==
    IF r.baseline.nFiles = 0 THEN [exc |-> "ZeroDivisionError", value |-> <<0, 1>>]
    ELSE [exc |-> "none", value |-> <<100 * changed_files_abs(r), r.baseline.nFiles>>]

\* print_info: the exception and the block printed
print_info(r) ==
    LET ratios == language_ratios(r.languages)
        exc == IF ratios.exc # "none" THEN ratios.exc
               ELSE IF changed_loc_percent(r).exc # "none"
                    THEN changed_loc_percent(r).exc
               ELSE changed_files_percent(r).exc   \* also code / nFiles, line 120
    IN
    [exc   |-> exc,
     value |-> IF exc # "none" THEN None
               ELSE [project_name    |-> r.project.project_name,
                     languages       |-> ratios.value,
                     total_sloc      |-> r.baseline.code,
                     sloc_changed    |-> changed_loc_abs(r),
                     sloc_changed_pc |-> changed_loc_percent(r).value,
                     total_files     |-> r.baseline.nFiles,
                     sloc_per_file   |-> <<r.baseline.code, r.baseline.nFiles>>,
                     files_changed   |-> changed_files_abs(r),
                     files_changed_pc |-> changed_files_percent(r).value]]

(***************************************************************************)
(* Presentation: names, macros and table rows (lines 169-250).  A name is  *)
(* the sequence of its characters.                                         *)
(***************************************************************************)
LowerCase == <<"a", "b", "c", "d", "e", "f", "g", "h", "i", "j", "k", "l", "m",
               "n", "o", "p", "q", "r", "s", "t", "u", "v", "w", "x", "y", "z">>

UpperCase == <<"A", "B", "C", "D", "E", "F", "G", "H", "I", "J", "K", "L", "M",
               "N", "O", "P", "Q", "R", "S", "T", "U", "V", "W", "X", "Y", "Z">>

\* c.isalpha()
isalpha(c) == c \in Range(LowerCase) \cup Range(UpperCase)

\* c.upper()
upper(c) ==
    IF c \in Range(LowerCase)
    THEN UpperCase[CHOOSE i \in 1..Len(LowerCase) : LowerCase[i] = c]
    ELSE c

\* the characters after which the next letter is put in upper case (line 196)
MacroSeparators == {"-", " ", "\t", "_", ".", "(", ")"}

\* the loop of lines 195-204 on the rest of the name
RECURSIVE escape_chars(_, _)
escape_chars(rest, next_upper) ==
    IF rest = <<>> THEN <<>>
    ELSE LET c == Head(rest) IN
         IF c \in MacroSeparators THEN escape_chars(Tail(rest), TRUE)
         ELSE IF isalpha(c)
              THEN <<IF next_upper THEN upper(c) ELSE c>> \o escape_chars(Tail(rest), FALSE)
         ELSE escape_chars(Tail(rest), next_upper)

\* CLOCReport.escape_name_for_macro
escape_name_for_macro(fullname) == escape_chars(fullname, TRUE)

\* CLOCReport.project_name_for_latex (an unset or empty latex name is falsy)
project_name_for_latex(r) ==
    IF r.project.latex_project_name # <<>> THEN r.project.latex_project_name
    ELSE r.project.project_name

\* CLOCReport.lang_to_latex
lang_to_latex(lang) ==
    IF lang = "Assembly" THEN "ASM" ELSE IF lang = "C++" THEN "\\cpp{}" ELSE lang

\* CLOCReport.languages_for_latex, on the language_ratios of a report that
\* print_info has printed (language_ratios raises nothing then)
languages_for_latex(r) ==
    IF r.languages = <<>> THEN <<"????">>
    ELSE [i \in 1..Len(language_ratios(r.languages).value) |->
            lang_to_latex(language_ratios(r.languages).value[i][1])]

\* CLOCReport.macro_definitions: the five \newcommand* lines, each the macro
\* name (its prefix and the escaped name) and its value
macro_definitions(r) ==
    LET fullname == escape_name_for_macro(project_name_for_latex(r)) IN
    <<[macro |-> <<"TotalSloc", fullname>>, value |-> r.baseline.code],
      [macro |-> <<"ChangedSloc", fullname>>, value |-> changed_loc_abs(r)],
      [macro |-> <<"ChangedSlocRatio", fullname>>,
       value |-> changed_loc_percent(r).value],
      [macro |-> <<"ChangedFiles", fullname>>, value |-> changed_files_abs(r)],
      [macro |-> <<"ChangedFilesRatio", fullname>>,
       value |-> changed_files_percent(r).value]>>

\* CLOCReport.latex_row: the cells of the row (the extra_* columns of a Project
\* are constants of the registry and are left out)
latex_row(r) ==
    [name          |-> project_name_for_latex(r),
     languages     |-> languages_for_latex(r),
     sloc          |-> r.baseline.code,
     files         |-> r.baseline.nFiles,
     changed_sloc  |-> changed_loc_abs(r),
     changed_sloc_pc  |-> changed_loc_percent(r).value,
     changed_files |-> changed_files_abs(r),
     changed_files_pc |-> changed_files_percent(r).value]

(***************************************************************************)
(* SummaryReport (lines 911-929).                                          *)
(***************************************************************************)
SummaryReport ==
    [sloc |-> 0, files |-> 0, modified_sloc |-> 0, modified_files |-> 0,
     projects |-> <<>>]

\* SummaryReport.combine
combine_ignoring_flag(summary, r, ignore_changes) ==
    [sloc           |-> summary.sloc + r.baseline.code,
     files          |-> summary.files + r.baseline.nFiles,
     modified_sloc  |-> summary.modified_sloc + changed_loc_abs(r),
     modified_files |-> summary.modified_files + changed_files_abs(r),
     projects       |-> Append(summary.projects, r.project)]

combine(summary, r, ignore_changes) ==
    [sloc           |-> summary.sloc + r.baseline.code,
     files          |-> summary.files + r.baseline.nFiles,
     modified_sloc  |-> IF ignore_changes THEN summary.modified_sloc
                        ELSE summary.modified_sloc + changed_loc_abs(r),
     modified_files |-> IF ignore_changes THEN summary.modified_files
                        ELSE summary.modified_files + changed_files_abs(r),
     projects       |-> Append(summary.projects, r.project)]

\* subset_totals[key].combine(...) on the defaultdict subset_totals
combine_subset(subsets, key, r, ignore_changes) ==
    [k \in DOMAIN subsets \cup {key} |->
        IF k = key
        THEN combine(IF key \in DOMAIN subsets THEN subsets[key] ELSE SummaryReport,
                     r, ignore_changes)
        ELSE subsets[k]]

\* lines 936-943 for a report that is not commented: the exception and the totals
\* (ValueError is raised after the first three combine calls)
aggregate_language_no_sentinel_check(totals, r, lang) ==
    IF lang.exc # "none"
    THEN [exc |-> lang.exc, total |-> totals.total, subsets |-> totals.subsets]
    ELSE [exc |-> "none", total |-> totals.total,
          subsets |-> combine_subset(
                        combine_subset(totals.subsets, lang.value, r, FALSE),
                        "CHERI, " \o lang.value, r,
                        r.project.no_cheri_specific_changes)]

aggregate_language(totals, r, lang) ==
    IF lang.exc # "none" \/ lang.value = "????"
    THEN [exc |-> IF lang.exc # "none" THEN lang.exc ELSE "ValueError",
          total |-> totals.total, subsets |-> totals.subsets]
    ELSE [exc |-> "none", total |-> totals.total,
          subsets |-> combine_subset(
                        combine_subset(totals.subsets, lang.value, r, FALSE),
                        "CHERI, " \o lang.value, r,
                        r.project.no_cheri_specific_changes)]

\* an aggregation that adds the changes of every report to "CHERI"
aggregate_cheri_with_changes(sum_total, subsets, r) ==
    aggregate_language(
        [total   |-> combine(sum_total, r, FALSE),
         subsets |-> combine_subset(
                        IF r.project.no_cheri_specific_changes
                        THEN combine_subset(subsets, "no CHERI", r, FALSE)
                        ELSE subsets,
                        "CHERI", r, FALSE)],
        r, main_language(r))

aggregate(sum_total, subsets, r) ==
    aggregate_language(
        [total   |-> combine(sum_total, r, FALSE),
         subsets |-> combine_subset(
                        IF r.project.no_cheri_specific_changes
                        THEN combine_subset(subsets, "no CHERI", r, FALSE)
                        ELSE subsets,
                        "CHERI", r, r.project.no_cheri_specific_changes)],
        r, main_language(r))

\* lines 945-962: the divisions of the summary print
summary_exc(sum_total, subsets) ==
    IF sum_total.sloc = 0 \/ sum_total.files = 0 THEN "ZeroDivisionError"
    ELSE IF \E k \in DOMAIN subsets : subsets[k].sloc = 0 \/ subsets[k].files = 0
         THEN "ZeroDivisionError"
    ELSE "none"

(***************************************************************************)
(* reports.sort(key=attrgetter('main_language', 'changed_loc_percent',     *)
(* 'changed_loc_abs')) (line 966), on reports print_info has printed.      *)
(***************************************************************************)
\* the values of main_language in the order Python compares them
MainLanguageOrder == <<"????", "Assembly", "C", "C++">>

LanguageRank(lang) == CHOOSE i \in 1..Len(MainLanguageOrder) : MainLanguageOrder[i] = lang

sort_key(r) ==
    <<LanguageRank(main_language(r).value), changed_loc_percent(r).value,
      changed_loc_abs(r)>>

\* tuple comparison k1 < k2 of two keys
key_less(k1, k2) ==
    \/ k1[1] < k2[1]
    \/ /\ k1[1] = k2[1]
       /\ \/ k1[2][1] * k2[2][2] < k2[2][1] * k1[2][2]
          \/ /\ k1[2][1] * k2[2][2] = k2[2][1] * k1[2][2]
             /\ k1[3] < k2[3]

\* an insertion that puts a report before the reports of the same key
RECURSIVE insert_report_before_equal(_, _)
insert_report_before_equal(sorted, r) ==
    IF sorted = <<>> THEN <<r>>
    ELSE IF ~key_less(sort_key(Head(sorted)), sort_key(r)) THEN <<r>> \o sorted
    ELSE <<Head(sorted)>> \o insert_report_before_equal(Tail(sorted), r)

\* the place list.sort gives a report among the ones already placed
RECURSIVE insert_report(_, _)
insert_report(sorted, r) ==
    IF sorted = <<>> THEN <<r>>
    ELSE IF key_less(sort_key(r), sort_key(Head(sorted))) THEN <<r>> \o sorted
    ELSE <<Head(sorted)>> \o insert_report(Tail(sorted), r)

RECURSIVE sort_reports_from(_, _)
sort_reports_from(done, rs) ==
    IF rs = <<>> THEN done
    ELSE sort_reports_from(insert_report(done, Head(rs)), Tail(rs))

\* the stable ascending sort of the list
sort_reports(rs) == sort_reports_from(<<>>, rs)

\* max(reports, key=attrgetter("changed_loc_percent")): the first largest one
RECURSIVE max_report(_, _)
max_report(best, rs) ==
    IF rs = <<>> THEN best
    ELSE max_report(
            IF changed_loc_percent(best).value[1] * changed_loc_percent(Head(rs)).value[2]
                 < changed_loc_percent(Head(rs)).value[1] * changed_loc_percent(best).value[2]
            THEN Head(rs) ELSE best,
            Tail(rs))

\* a table body that leaves the commented projects out
table_rows_skipping_commented(rs) ==
    LET shown == SelectSeq(rs, LAMBDA r : ~r.project.commented) IN
    [i \in 1..Len(shown) |-> [prefix |-> "", row |-> latex_row(shown[i])]]

\* lines 976-985: the rows of table_body, a commented project's with "% " before
table_rows(rs) ==
    [i \in 1..Len(rs) |->
        [prefix |-> IF rs[i].project.commented THEN "% " ELSE "",
         row    |-> latex_row(rs[i])]]

(***************************************************************************)
(* JSON files.  The content of a file is its layout and its text: the      *)
(* sequence of <<key, value>> members of the top-level object, in the      *)
(* order they are written; the value of a count key is a number, any other *)
(* value is the text of a nested object.                                   *)
(***************************************************************************)
\* every key of a report document, in the order sort_keys=True writes them
\* (Python compares strings by code point: upper case before lower case)
SortedKeyOrder ==
    <<"Assembly", "C", "C++", "C/C++ Header", "SUM", "added", "blank", "code",
      "comment", "header", "modified", "nFiles", "removed", "same">>

\* the order the counting tool writes them in
ClocKeyOrder ==
    <<"header", "C++", "C/C++ Header", "C", "Assembly", "added", "same",
      "modified", "removed", "SUM", "nFiles", "blank", "comment", "code">>

IsNumberKey(k) == k \in SummaryFields

LastIndexOf(text, k) ==
    CHOOSE i \in 1..Len(text) :
        /\ text[i][1] = k
        /\ \A j \in (i + 1)..Len(text) : text[j][1] # k

\* json.load: the dict of a text (the last member of a repeated key wins)
RECURSIVE json_load(_)
json_load(text) ==
    [k \in Keys(text) |->
        LET v == text[LastIndexOf(text, k)][2] IN
        IF IsNumberKey(k) THEN v ELSE json_load(v)]

\* the members of dict doc in the order of the keys of order
RECURSIVE WriteMembers(_, _, _)
WriteMembers(doc, order, all) ==
    IF order = <<>> THEN <<>>
    ELSE LET k == Head(order)
             rest == WriteMembers(doc, Tail(order), all) IN
         IF k \in DOMAIN doc
         THEN <<<<k, IF IsNumberKey(k) THEN doc[k]
                     ELSE WriteMembers(doc[k], all, all)>>>> \o rest
         ELSE rest

\* json.dump(result, jf, sort_keys=True, ensure_ascii=False, indent=2)
json_dump_unsorted(doc) ==
    [layout |-> "indent2", text |-> WriteMembers(doc, ClocKeyOrder, ClocKeyOrder)]

json_dump(doc) ==
    [layout |-> "indent2", text |-> WriteMembers(doc, SortedKeyOrder, SortedKeyOrder)]

\* the file the counting tool writes for a document
ClocOutput(doc) ==
    [layout |-> "cloc", text |-> WriteMembers(doc, ClocKeyOrder, ClocKeyOrder)]

(***************************************************************************)
(* The reports directory: a function from the names of the files that      *)
(* exist to their contents.  A file name of the directory                  *)
(* is the project name it starts with and the rest of the name, a string.  *)
(***************************************************************************)
\* Path(this_dir, "reports", project_name + suffix)
ReportPath(project_name, suffix) == [stem |-> project_name, ext |-> suffix]

\* path.with_name(path.name + suffix)
WithSuffix(path, suffix) == [path EXCEPT !.ext = @ \o suffix]

Exists(dir, f) == f \in DOMAIN dir

WriteFile(dir, f, content) ==
    [g \in DOMAIN dir \cup {f} |-> IF g = f THEN content ELSE dir[g]]

Unlink(dir, f) == [g \in DOMAIN dir \ {f} |-> dir[g]]

\* an Optional[str] argument that is given
Some(x) == [v |-> x]

\* lines 279-287: load json_file, write it sorted to final_file, unlink json_file
\* unless it is final_file
rewrite(dir, json_file, final_file, result) ==
    [exc   |-> "none",
     value |-> result,
     dir   |-> IF json_file # final_file
               THEN Unlink(WriteFile(dir, final_file, json_dump(result)), json_file)
               ELSE WriteFile(dir, final_file, json_dump(result)),
     ops   |-> <<<<"read", json_file>>, <<"write", final_file>>>>
               \o (IF json_file # final_file THEN <<<<"unlink", json_file>>>>
                   ELSE <<>>)]

\* lines 273-278: the file read is the new file, or the renamed one if only
\* that one exists
parse_json_file_all_optional(dir, json_file, final_file, optional) ==
    IF ~Exists(dir, json_file)
    THEN [exc |-> "none", value |-> None, dir |-> dir, ops |-> <<>>]
    ELSE rewrite(dir, json_file, final_file, json_load(dir[json_file].text))

parse_json_file(dir, json_file, final_file, optional) ==
    IF optional /\ ~Exists(dir, json_file)
    THEN [exc |-> "none", value |-> None, dir |-> dir, ops |-> <<>>]
    ELSE IF ~Exists(dir, json_file)
    THEN [exc |-> "AssertionError", value |-> None, dir |-> dir, ops |-> <<>>]
    ELSE rewrite(dir, json_file, final_file, json_load(dir[json_file].text))

\* a _parse_json that reads the renamed file whenever it exists
parse_json_renamed_first(dir, json_base, suffix, optional) ==
    LET new_file   == IF suffix = None THEN json_base ELSE WithSuffix(json_base, suffix.v)
        final_file == IF suffix = None THEN json_base ELSE WithSuffix(new_file, ".json")
    IN
    parse_json_file(dir,
                    IF Exists(dir, final_file) THEN final_file ELSE new_file,
                    final_file, optional)

\* ProjectBase._parse_json (lines 265-287): the exception, the dict returned, the
\* directory afterwards and the file operations made, in order
parse_json(dir, json_base, suffix, optional) ==
    LET new_file   == IF suffix = None THEN json_base ELSE WithSuffix(json_base, suffix.v)
        final_file == IF suffix = None THEN json_base ELSE WithSuffix(new_file, ".json")
    IN
    parse_json_file(dir,
                    IF ~Exists(dir, new_file) /\ Exists(dir, final_file)
                    THEN final_file ELSE new_file,
                    final_file, optional)

(***************************************************************************)
(* GitRef and the project descriptors (lines 22-36, 289-433).              *)
(***************************************************************************)
GitRef(branch, hash) ==
    [branch |-> branch, _hash |-> hash, _GitRef__verified |-> FALSE]

\* line 36: what GitRef.hash returns whenever it returns
GitRef_hash(ref) == ref._hash

\* git rev-parse is not run (the GitRef is verified)
GitNotCalled == [rc |-> 0, rev_parsed |-> "-"]

\* the ways git rev-parse can end for a GitRef: not run, failed, or the hash
\* the branch resolves to (the recorded one, or another)
GitResolutions(ref) ==
    IF ref._GitRef__verified THEN {GitNotCalled}
    ELSE {[rc |-> 128, rev_parsed |-> "-"],
          [rc |-> 0, rev_parsed |-> ref._hash],
          [rc |-> 0, rev_parsed |-> "h9"]}

\* a hash method that raises when the branch has moved
GitRef_hash_call_strict(ref, git) ==
    IF ref._GitRef__verified
    THEN [exc |-> "none", value |-> Some(GitRef_hash(ref)), ref |-> ref, stderr |-> <<>>]
    ELSE IF git.rc # 0 \/ git.rev_parsed # ref._hash
    THEN [exc |-> "CalledProcessError", value |-> None, ref |-> ref, stderr |-> <<>>]
    ELSE [exc |-> "none", value |-> Some(GitRef_hash(ref)),
          ref |-> [ref EXCEPT !._GitRef__verified = TRUE], stderr |-> <<>>]

\* GitRef.hash (lines 28-36): the exception or the value returned, the GitRef
\* as the call leaves it, and the warnings printed to stderr
GitRef_hash_call(ref, git) ==
    IF ref._GitRef__verified
    THEN [exc |-> "none", value |-> Some(GitRef_hash(ref)), ref |-> ref, stderr |-> <<>>]
    ELSE IF git.rc # 0      \* check_output raises
    THEN [exc |-> "CalledProcessError", value |-> None, ref |-> ref, stderr |-> <<>>]
    ELSE [exc |-> "none", value |-> Some(GitRef_hash(ref)),
          ref |-> [ref EXCEPT !._GitRef__verified = TRUE],
          stderr |-> IF git.rev_parsed # ref._hash
                     THEN <<[branch_hash |-> git.rev_parsed, branch |-> ref.branch,
                             expected |-> ref._hash]>>
                     ELSE <<>>]

Project(repo_subdir, project_name, baseline, cheri, commented, no_cheri_specific_changes, latex_project_name) ==
    [kind |-> "Project", repo_subdir |-> repo_subdir, project_name |-> project_name,
     baseline |-> baseline, cheri |-> cheri, commented |-> commented,
     no_cheri_specific_changes |-> no_cheri_specific_changes,
     latex_project_name |-> latex_project_name]

\* no_cheri_specific_changes is the property of lines 360-362: always True
UnmodifiedProject(repo_subdir, project_name, baseline, commented, latex_project_name) ==
    [kind |-> "UnmodifiedProject", repo_subdir |-> repo_subdir,
     project_name |-> project_name, baseline |-> baseline, commented |-> commented,
     no_cheri_specific_changes |-> TRUE, latex_project_name |-> latex_project_name]

\* no_cheri_specific_changes is the property of lines 402-404: always True
UnmodifiedDirectories(directories, project_name, commented, latex_project_name) ==
    [kind |-> "UnmodifiedDirectories", directories |-> directories,
     project_name |-> project_name, commented |-> commented,
     no_cheri_specific_changes |-> TRUE, latex_project_name |-> latex_project_name]

\* the ways the git calls of one run_cloc call can end
GitOutcomes(p) ==
    IF p.kind = "Project"
    THEN {[baseline |-> b, cheri |-> c] :
            b \in GitResolutions(p.baseline), c \in GitResolutions(p.cheri)}
    ELSE IF p.kind = "UnmodifiedProject"
    THEN {[baseline |-> b] : b \in GitResolutions(p.baseline)}
    ELSE {[none |-> GitNotCalled]}

\* line 313, after baseline.hash has returned: cheri.hash
verify_cheri(p, stderr, c) ==
    [exc |-> c.exc, project |-> [p EXCEPT !.cheri = c.ref], stderr |-> stderr \o c.stderr]

\* lines 313 and 368, after the call of baseline.hash
verify_baseline(p, git, b) ==
    IF b.exc # "none" THEN [exc |-> b.exc, project |-> p, stderr |-> b.stderr]
    ELSE IF p.kind = "UnmodifiedProject"
    THEN [exc |-> "none", project |-> [p EXCEPT !.baseline = b.ref], stderr |-> b.stderr]
    ELSE verify_cheri([p EXCEPT !.baseline = b.ref], b.stderr,
                      GitRef_hash_call(p.cheri, git.cheri))

\* the first hash calls of run_cloc (lines 313 and 368), which verify the
\* GitRefs of the descriptor: the exception if one raises, the descriptor as the
\* calls leave it, the warnings printed
verify_refs(p, git) ==
    IF p.kind = "UnmodifiedDirectories"
    THEN [exc |-> "none", project |-> p, stderr |-> <<>>]
    ELSE verify_baseline(p, git, GitRef_hash_call(p.baseline, git.baseline))

(***************************************************************************)
(* The counting tool (cloc), an external process: an invocation ends with  *)
(* an exit status and has written some of the files it was asked for.      *)
(* outcome.files maps the outputs written ("baseline", "cheri", "diff" of  *)
(* a --count-and-diff run, "result" of a plain count) to their documents.  *)
(***************************************************************************)
ToolWrites(dir, targets, outcome) ==
    [g \in DOMAIN dir \cup {targets[k] : k \in DOMAIN outcome.files} |->
        IF \E k \in DOMAIN outcome.files : targets[k] = g
        THEN ClocOutput(outcome.files[CHOOSE k \in DOMAIN outcome.files : targets[k] = g])
        ELSE dir[g]]

\* subprocess.check_call raises CalledProcessError on a non-zero exit status
check_call_ignoring_status(rc) == FALSE

check_call_raises(rc) == rc # 0

(***************************************************************************)
(* run_cloc: the exception, the report returned, the directory afterwards, *)
(* the number of tool invocations, the file operations of _parse_json and  *)
(* the directory as the tool left it (before any _parse_json).             *)
(***************************************************************************)
RunResult(exc, value, dir, tool_calls, ops, tool_dir) ==
    [exc |-> exc, value |-> value, dir |-> dir, tool_calls |-> tool_calls, ops |-> ops,
     tool_dir |-> tool_dir]

\* line 318: the tool is skipped if the diff exists, or both count files do
skip_cloc_diff_only(dir, diff_json_file, baseline_json_file, cheri_json_file) ==
    Exists(dir, diff_json_file)

\* the tool is skipped only if both count files exist
skip_cloc_counts_only(dir, diff_json_file, baseline_json_file, cheri_json_file) ==
    Exists(dir, baseline_json_file) /\ Exists(dir, cheri_json_file)

skip_cloc(dir, diff_json_file, baseline_json_file, cheri_json_file) ==
    \/ Exists(dir, diff_json_file)
    \/ (Exists(dir, baseline_json_file) /\ Exists(dir, cheri_json_file))

\* lines 347-348: the report of the three documents parsed
Project_report(p, tool_calls, dir1, b, c, d) ==
    IF d.exc # "none"
    THEN RunResult(d.exc, None, d.dir, tool_calls, b.ops \o c.ops \o d.ops, dir1)
    ELSE RunResult(CLOCReport(p, b.value, c.value, d.value).exc,
                   CLOCReport(p, b.value, c.value, d.value).value,
                   d.dir, tool_calls, b.ops \o c.ops \o d.ops, dir1)

\* line 346: the diff document is optional
Project_parse_diff(p, out_json, diff_json_suffix, tool_calls, dir1, b, c) ==
    IF c.exc # "none"
    THEN RunResult(c.exc, None, c.dir, tool_calls, b.ops \o c.ops, dir1)
    ELSE Project_report(p, tool_calls, dir1, b, c,
                        parse_json(c.dir, out_json, Some(diff_json_suffix), TRUE))

\* line 345: the document of the modified revision
Project_parse_cheri(p, out_json, diff_json_suffix, tool_calls, dir1, b) ==
    IF b.exc # "none"
    THEN RunResult(b.exc, None, b.dir, tool_calls, b.ops, dir1)
    ELSE Project_parse_diff(p, out_json, diff_json_suffix, tool_calls, dir1, b,
                            parse_json(b.dir, out_json,
                                       Some("." \o GitRef_hash(p.cheri)), FALSE))

\* lines 332-344: the tool runs unless skipped, then the baseline document
Project_invoke(p, out_json, diff_json_suffix, skip, rc, dir1) ==
    IF ~skip /\ check_call_raises(rc)
    THEN RunResult("CalledProcessError", None, dir1, 1, <<>>, dir1)
    ELSE Project_parse_cheri(p, out_json, diff_json_suffix, IF skip THEN 0 ELSE 1, dir1,
                             parse_json(dir1, out_json,
                                        Some("." \o GitRef_hash(p.baseline)), FALSE))

\* Project.run_cloc (lines 309-349)
Project_run_cloc(p, dir, outcome) ==
    LET out_json           == ReportPath(p.project_name, ".report")
        bh                 == GitRef_hash(p.baseline)
        ch                 == GitRef_hash(p.cheri)
        diff_json_suffix   == ".diff." \o bh \o "." \o ch
        diff_json_file     == WithSuffix(out_json, diff_json_suffix \o ".json")
        baseline_json_file == WithSuffix(out_json, "." \o bh \o ".json")
        cheri_json_file    == WithSuffix(out_json, "." \o ch \o ".json")
        skip               == skip_cloc(dir, diff_json_file, baseline_json_file,
                                        cheri_json_file)
        \* --out=out_json --count-and-diff: one file per revision, and the diff
        targets            == [baseline |-> WithSuffix(out_json, "." \o bh),
                               cheri    |-> WithSuffix(out_json, "." \o ch),
                               diff     |-> WithSuffix(out_json, diff_json_suffix)]
    IN
    Project_invoke(p, out_json, diff_json_suffix, skip, outcome.rc,
                   IF skip THEN dir ELSE ToolWrites(dir, targets, outcome))

\* lines 388-391 and 430-433: the report of the one document parsed
Unmodified_report(p, tool_calls, dir1, b) ==
    IF b.exc # "none"
    THEN RunResult(b.exc, None, b.dir, tool_calls, b.ops, dir1)
    ELSE RunResult(CLOCReport(p, b.value, None, None).exc,
                   CLOCReport(p, b.value, None, None).value,
                   b.dir, tool_calls, b.ops, dir1)

\* lines 381-388 and 422-430: the tool runs if the result is not there, then
\* the document is parsed
Unmodified_invoke(p, json_base, suffix, run, rc, dir1) ==
    IF run /\ check_call_raises(rc)
    THEN RunResult("CalledProcessError", None, dir1, 1, <<>>, dir1)
    ELSE Unmodified_report(p, IF run THEN 1 ELSE 0, dir1,
                           parse_json(dir1, json_base, suffix, FALSE))

\* UnmodifiedProject.run_cloc (lines 364-391)
UnmodifiedProject_run_cloc(p, dir, outcome) ==
    LET basename_json == ReportPath(p.project_name, ".report")
        bh            == GitRef_hash(p.baseline)
        result_json   == WithSuffix(basename_json, "." \o bh \o ".json")
        run           == ~Exists(dir, result_json)
        \* --out=result_json
        targets       == [result |-> result_json]
    IN
    Unmodified_invoke(p, basename_json, Some("." \o bh), run, outcome.rc,
                      IF run THEN ToolWrites(dir, targets, outcome) ELSE dir)

\* every directory name of the model, in sorted() order
SortedDirectoryNames == <<"a", "ab", "b", "bc", "c", "qtbase", "tigervnc", "zz">>

RECURSIVE JoinSorted(_, _)
JoinSorted(directories, order) ==
    IF order = <<>> THEN ""
    ELSE (IF Head(order) \in Range(directories) THEN Head(order) ELSE "")
         \o JoinSorted(directories, Tail(order))

\* hashlib.sha1(...).hexdigest(), taken to be free of collisions
sha1_hexdigest(str) == "sha1<" \o str \o ">"

\* UnmodifiedDirectories.run_cloc (lines 406-433)
UnmodifiedDirectories_run_cloc(p, dir, outcome) ==
    LET all_dirs      == JoinSorted(p.directories, SortedDirectoryNames)
        report_suffix == sha1_hexdigest(all_dirs)
        result_json   == ReportPath(p.project_name,
                                    ".report." \o report_suffix \o ".json")
        run           == ~Exists(dir, result_json)
        targets       == [result |-> result_json]
    IN
    Unmodified_invoke(p, result_json, None, run, outcome.rc,
                      IF run THEN ToolWrites(dir, targets, outcome) ELSE dir)

\* run_cloc once the GitRefs of the descriptor are verified
run_cloc_verified(p, dir, outcome) ==
    IF p.kind = "Project" THEN Project_run_cloc(p, dir, outcome)
    ELSE IF p.kind = "UnmodifiedProject" THEN UnmodifiedProject_run_cloc(p, dir, outcome)
    ELSE UnmodifiedDirectories_run_cloc(p, dir, outcome)

\* the result of run_cloc, with the descriptor as the call leaves it and the
\* warnings of its hash calls
run_cloc_result(v, dir, outcome) ==
    [project |-> v.project, stderr |-> v.stderr]
    @@ (IF v.exc # "none" THEN RunResult(v.exc, None, dir, 0, <<>>, dir)
        ELSE run_cloc_verified(v.project, dir, outcome))

\* project.run_cloc()
run_cloc(p, dir, outcome) == run_cloc_result(verify_refs(p, outcome.git), dir, outcome)

(***************************************************************************)
(* The documents the tool writes and the files found in the directory.     *)
(***************************************************************************)
EmptyDir == [g \in {} |-> None]

\* before the first run_cloc call
NoCall ==
    [n |-> 0, exc |-> "none", value |-> None, tool_calls |-> 0, ops |-> <<>>,
     rc |-> 0, git |-> [none |-> GitNotCalled], stderr |-> <<>>, before |-> None,
     fs_before |-> EmptyDir, fs_tool |-> EmptyDir,
     tools_run |-> 0, prior_success |-> FALSE, succeeded |-> FALSE]

\* what a run of the tool writes for each of its outputs
FreshDoc(output) ==
    IF output = "diff"
    THEN [SUM |-> [added    |-> ClocSummary(0, 0, 3, 1),
                   removed  |-> ClocSummary(0, 0, 1, 0),
                   modified |-> ClocSummary(0, 0, 2, 2),
                   same     |-> ClocSummary(1, 1, 90, 3)]]
    ELSE ("SUM" :> ClocSummary(1, 1, 105, 4))
         @@ ("C" :> ClocSummary(1, 1, 100, 3))
         @@ ("C/C++ Header" :> ClocSummary(0, 0, 5, 1))

\* what an earlier run left in the directory
StaleDoc(output) ==
    IF output = "diff"
    THEN [SUM |-> [added    |-> ClocSummary(0, 0, 0, 1),
                   removed  |-> ClocSummary(0, 0, 0, 0),
                   modified |-> ClocSummary(0, 0, 0, 1),
                   same     |-> ClocSummary(1, 1, 50, 3)]]
    ELSE ("SUM" :> ClocSummary(1, 1, 50, 3))
         @@ ("C++" :> ClocSummary(1, 1, 49, 2))
         @@ ("Assembly" :> ClocSummary(0, 0, 1, 1))

\* the outputs a run of the tool is asked for
ToolOutputs(p) ==
    IF p.kind = "Project" THEN {"baseline", "cheri", "diff"} ELSE {"result"}

\* the ways a run of the tool can end: any exit status, any of its outputs written
ToolOutcomes(p) ==
    {[rc |-> rc, files |-> [k \in written |-> FreshDoc(k)], git |-> git] :
        rc \in {0, 1}, written \in SUBSET ToolOutputs(p), git \in GitOutcomes(p)}

\* the pipeline's names before the top level binds them
PipelineNotStarted ==
    /\ idx = 0
    /\ reports = <<>>
    /\ missing_projects = {}
    /\ total = None
    /\ subset_totals = EmptyDir
    /\ outputs = EmptyDir
    /\ macro_defs = <<>>
    /\ ensure_unique_project_names = {}

(***************************************************************************)
(* SpecReport: the CLOCReport constructor and print_info on arguments      *)
(* drawn from bounded sets of documents.                                   *)
(***************************************************************************)
\* code-line counts of a language of a baseline document
LocValues == {0, 1, 100}

\* a language entry of a count document
LanguageEntry(code) == ClocSummary(0, 0, code, 1)

\* the languages of a baseline document: some of the tracked languages, each
\* with a code-line count
LanguageChoices == UNION {[S -> LocValues] : S \in SUBSET Range(TrackedLanguages)}

\* code lines of the untracked language (C/C++ Header) of a count document
HeaderCodeValues == {0, 5}

PresentLanguages(choice) == DOMAIN choice

RECURSIVE SumChoice(_, _)
SumChoice(choice, langs) ==
    IF langs = {} THEN 0
    ELSE LET l == CHOOSE x \in langs : TRUE IN choice[l] + SumChoice(choice, langs \ {l})

\* a count document as the tool writes it: one entry per language, and SUM
CountDoc(choice, header_code) ==
    [k \in PresentLanguages(choice) \cup {"C/C++ Header", "SUM"} |->
        IF k = "SUM"
        THEN ClocSummary(0, 0, SumChoice(choice, PresentLanguages(choice)) + header_code,
                         Cardinality(PresentLanguages(choice)) + header_code)
        ELSE IF k = "C/C++ Header" THEN ClocSummary(0, 0, header_code, header_code)
        ELSE LanguageEntry(choice[k])]

CountDocs == {CountDoc(c, h) : c \in LanguageChoices, h \in HeaderCodeValues}

\* a document without a SUM entry (the dict() of no_changes_report, line 104)
DocWithoutSum == [header |-> ClocSummary(0, 0, 0, 0)]

\* a diff document: SUM holds the four partitions
DiffDoc(added, removed, modified) ==
    [SUM |-> [added |-> added, removed |-> removed, modified |-> modified,
              same |-> ClocSummary(0, 0, 7, 2)]]

Counts == 0..MaxCount

PartitionSummaries == {ClocSummary(0, 0, c, n) : c \in Counts, n \in Counts}

DiffDocs == {DiffDoc(a, r, m) : a \in PartitionSummaries, r \in PartitionSummaries,
                                m \in PartitionSummaries}

\* fixed documents for the arguments that are not varied
SomeCountDoc == CountDoc([l \in {"C"} |-> 100], 5)

SomeDiffDocs == {DiffDoc(ClocSummary(0, 0, 0, 1), ClocSummary(0, 0, 0, 0),
                         ClocSummary(0, 0, 0, 1)),
                 DiffDoc(ClocSummary(0, 0, 1, 1), ClocSummary(0, 0, 0, 0),
                         ClocSummary(0, 0, 1, 1))}

SomeProject == [project_name |-> <<"a">>]

\* the documents of a project of 132009 code lines in 334 files (lines 42-46),
\* with 1000 code lines added, 500 removed and 2000 modified
LargeProjectArgs ==
    [baseline_raw |-> ("SUM" :> ClocSummary(47590, 5545, 132009, 334))
                      @@ ("C" :> ClocSummary(47590, 5545, 132009, 334)),
     cheri_raw    |-> None,
     diff_raw     |-> DiffDoc(ClocSummary(0, 0, 1000, 3), ClocSummary(0, 0, 500, 2),
                              ClocSummary(0, 0, 2000, 20))]

\* the constructor arguments: the baseline varies with a few diffs, and the diff
\* varies with a few baselines
ReportArgs ==
    {LargeProjectArgs} \cup
    [baseline_raw : CountDocs \cup {None, DocWithoutSum},
     cheri_raw    : {None, SomeCountDoc},
     diff_raw     : SomeDiffDocs \cup {None}]
    \cup
    [baseline_raw : {SomeCountDoc, None},
     cheri_raw    : {None, SomeCountDoc},
     diff_raw     : DiffDocs]

\* CLOCReport.no_changes_report (lines 99-110): the exception or the report
no_changes_report(name, languages, cloc_result) ==
    LET p      == Project(<<"invalid">>, name, None, None, FALSE, FALSE, <<>>)
        \* line 104: baseline_raw is dict(), cheri_raw is None, diff_raw is not given
        result == CLOCReport(p, [k \in {} |-> None], None, None)
        zero   == ClocSummary(0, 0, 0, 0) IN
    IF result.exc # "none" THEN [exc |-> result.exc, value |-> None]
    ELSE [exc   |-> "none",
          value |-> [result.value EXCEPT
                        !.languages = languages,
                        !.baseline  = cloc_result,
                        !.cheri     = cloc_result,
                        !.diff      = [removed |-> zero, added |-> zero,
                                       modified |-> zero, same |-> cloc_result]]]

\* the arguments of no_changes_report in the calls of lines 906-909, and of
\* smaller projects, with the documents line 104 gives to the constructor
NoChangesArgs ==
    {[name |-> name, languages |-> languages, cloc_result |-> cloc_result,
      baseline_raw |-> [k \in {} |-> None], cheri_raw |-> None, diff_raw |-> None] :
        name \in {<<"l", "i", "b", "x", "m", "l", "2">>},
        languages \in {<<<<"C", 100>>>>, <<>>},
        cloc_result \in {ClocSummary(29407, 57482, 231071, 184)} \cup PartitionSummaries}

InitReport ==
    /\ args \in ReportArgs \cup NoChangesArgs
    /\ report = None
    /\ printed = None
    /\ error = "none"
    /\ pc = "new"
    /\ projects = <<>>
    /\ fs = EmptyDir
    /\ call = NoCall
    /\ PipelineNotStarted

\* result = CLOCReport(project=..., baseline_raw=..., cheri_raw=..., diff_raw=...)
Construct ==
    /\ pc = "new"
    /\ args \notin NoChangesArgs
    /\ \E res \in {CLOCReport(SomeProject, args.baseline_raw, args.cheri_raw,
                              args.diff_raw)} :
       /\ report' = res.value
       /\ error' = res.exc
       /\ pc' = IF res.exc = "none" THEN "constructed" ELSE "failed"
    /\ UNCHANGED <<args, printed, projects, fs, call, pipelineVars>>

\* report.print_info()
PrintInfo ==
    /\ pc = "constructed"
    /\ \E res \in {print_info(report)} :
       /\ printed' = res.value
       /\ error' = res.exc
       /\ pc' = IF res.exc = "none" THEN "printed" ELSE "failed"
    /\ UNCHANGED <<args, report, projects, fs, call, pipelineVars>>

\* result = CLOCReport.no_changes_report(name, languages, cloc_result)
NoChangesReport ==
    /\ pc = "new"
    /\ args \in NoChangesArgs
    /\ \E res \in {no_changes_report(args.name, args.languages, args.cloc_result)} :
       /\ report' = res.value
       /\ error' = res.exc
       /\ pc' = IF res.exc = "none" THEN "constructed" ELSE "failed"
    /\ UNCHANGED <<args, printed, projects, fs, call, pipelineVars>>

NextReport == Construct \/ NoChangesReport \/ PrintInfo

SpecReport == InitReport /\ [][NextReport]_vars

(***************************************************************************)
(* Claims on the report model, checked under SpecReport.                   *)
(***************************************************************************)
Constructed == pc \in {"constructed", "printed"} \/ (pc = "failed" /\ report # None)

ConstructionEnded == pc # "new"

RawDiffCode(d) == d.SUM.added.code + d.SUM.removed.code + d.SUM.modified.code

\* C1: for every report that has a diff, changed_loc_abs is the sum of the
\* added, removed and modified code lines of the diff and changed_files_abs is
\* the modified file count of the diff; it is a function of the raw modified
\* file count and of the code counts alone, whatever the added and removed file
\* counts are; print_info prints these two values.
C1_ChangedCounts ==
    (Constructed /\ report.diff # None) =>
        /\ changed_loc_abs(report) =
             report.diff.added.code + report.diff.removed.code
               + report.diff.modified.code
        /\ changed_loc_abs(report) = RawDiffCode(args.diff_raw)
        /\ changed_files_abs(report) = report.diff.modified.nFiles
        /\ changed_files_abs(report) =
             IF RawDiffCode(args.diff_raw) = 0 THEN 0
             ELSE args.diff_raw.SUM.modified.nFiles
        /\ printed # None =>
             /\ printed.sloc_changed = RawDiffCode(args.diff_raw)
             /\ printed.files_changed = report.diff.modified.nFiles

\* a printed report with changed lines whose diff has added and removed files
\* but no modified file
C1_Witness ==
    /\ pc = "printed"
    /\ report.diff # None
    /\ report.diff.added.nFiles > 0
    /\ report.diff.removed.nFiles > 0
    /\ report.diff.modified.nFiles = 0
    /\ changed_loc_abs(report) > 0
    /\ printed.files_changed = 0

\* C2: once construction has ended, a report with changed_loc_abs = 0 has
\* changed_files_abs = 0; the construction of a report whose diff has no added,
\* removed or modified code line succeeds and sets the modified file count to
\* zero, leaving the rest of the diff as it was read.
C2_NoChangedLineNoChangedFile ==
    /\ Constructed => (changed_loc_abs(report) = 0 => changed_files_abs(report) = 0)
    /\ (/\ ConstructionEnded
        /\ args.baseline_raw \in CountDocs
        /\ args.diff_raw # None
        /\ RawDiffCode(args.diff_raw) = 0) =>
            /\ report # None
            /\ report.diff =
                 [from_dict_ClocDiff(args.diff_raw.SUM) EXCEPT !.modified.nFiles = 0]

\* a constructed report whose raw diff had a modified file and no code change
C2_Witness ==
    /\ Constructed
    /\ args.diff_raw # None
    /\ RawDiffCode(args.diff_raw) = 0
    /\ args.diff_raw.SUM.modified.nFiles > 0
    /\ report.diff.modified.nFiles = 0

NumberAbsent == (IF args.baseline_raw = None THEN 1 ELSE 0)
                + (IF args.cheri_raw = None THEN 1 ELSE 0)
                + (IF args.diff_raw = None THEN 1 ELSE 0)

WellFormedOrAbsent == args.baseline_raw # DocWithoutSum

\* C9 as stated: the construction succeeds when any one of the three raw
\* document groups is absent.
C9_AnyOneGroupAbsent ==
    (ConstructionEnded /\ WellFormedOrAbsent /\ NumberAbsent = 1) =>
        (error = "none" /\ report # None)

\* C9 amended: with a baseline document, the construction succeeds whether or
\* not the modified and the diff documents are given: the summary of an absent
\* one stays unset and the summaries of those present are built; without a
\* baseline document the construction fails and builds no report.
C9_BaselineRequired ==
    /\ (ConstructionEnded /\ args.baseline_raw \in CountDocs) =>
          /\ report # None
          /\ report.baseline = from_dict_ClocSummary(args.baseline_raw.SUM)
          /\ report.cheri = IF args.cheri_raw = None THEN None
                            ELSE from_dict_ClocSummary(args.cheri_raw.SUM)
          /\ (report.diff = None) = (args.diff_raw = None)
          /\ args.diff_raw # None =>
                report.diff = normalize_diff(from_dict_ClocDiff(args.diff_raw.SUM))
    /\ (ConstructionEnded /\ args.baseline_raw = None) =>
          (pc = "failed" /\ error = "AttributeError" /\ report = None)

\* a report built without the modified document and with a diff
C9_Witness ==
    /\ Constructed
    /\ args.cheri_raw = None
    /\ args.diff_raw # None
    /\ report.cheri = None
    /\ report.diff # None

MaxLoc(languages) ==
    CHOOSE m \in {languages[i][2] : i \in 1..Len(languages)} :
        \A i \in 1..Len(languages) : languages[i][2] <= m

\* C10 as stated: main_language is a tracked language of the report with the
\* largest share of the tracked code lines, and is "????" exactly when the
\* report has no tracked language.
C10_MainLanguage ==
    Constructed =>
        LET main == main_language(report) IN
        /\ main.exc = "none"
        /\ (main.value = "????") = (report.languages = <<>>)
        /\ report.languages # <<>> =>
             \E i \in 1..Len(report.languages) :
                /\ report.languages[i][1] = main.value
                /\ report.languages[i][2] = MaxLoc(report.languages)

(***************************************************************************)
(* SpecCloc: run_cloc calls of one descriptor, one after the other, on a   *)
(* reports directory that holds any of the descriptor's files.             *)
(***************************************************************************)
ClocDescriptors ==
    {Project(<<"qtbase">>, <<"Q", "t">>, GitRef("baseline", "h1"), GitRef("master", "h2"),
             FALSE, FALSE, <<>>),
     UnmodifiedProject(<<"tigervnc">>, <<"V", "n", "c">>, GitRef("master", "h1"),
                       FALSE, <<>>),
     UnmodifiedDirectories(<<"b", "a">>, <<"x", "1", "1">>, FALSE, <<>>),
     UnmodifiedDirectories(<<"c", "ab">>, <<"x", "1", "1">>, FALSE, <<>>)}

\* the files of the directory a run_cloc call of the descriptor looks at
DescriptorFiles(p) ==
    LET base == ReportPath(p.project_name, ".report") IN
    IF p.kind = "Project"
    THEN LET bh == GitRef_hash(p.baseline)
             ch == GitRef_hash(p.cheri) IN
         [baseline      |-> WithSuffix(base, "." \o bh),
          baseline_json |-> WithSuffix(base, "." \o bh \o ".json"),
          cheri         |-> WithSuffix(base, "." \o ch),
          cheri_json    |-> WithSuffix(base, "." \o ch \o ".json"),
          diff          |-> WithSuffix(base, ".diff." \o bh \o "." \o ch),
          diff_json     |-> WithSuffix(base, ".diff." \o bh \o "." \o ch \o ".json")]
    ELSE IF p.kind = "UnmodifiedProject"
    THEN LET bh == GitRef_hash(p.baseline) IN
         [baseline      |-> WithSuffix(base, "." \o bh),
          baseline_json |-> WithSuffix(base, "." \o bh \o ".json")]
    ELSE [baseline_json |->
            WithSuffix(base, "." \o sha1_hexdigest(
                JoinSorted(p.directories, SortedDirectoryNames)) \o ".json")]

\* what a file found in the directory holds: the tool's output if its name has
\* no ".json" extension, a rewritten document if it has
FoundContent(k) ==
    IF k \in {"baseline", "cheri"} THEN ClocOutput(StaleDoc("baseline"))
    ELSE IF k = "diff" THEN ClocOutput(StaleDoc("diff"))
    ELSE IF k = "diff_json" THEN json_dump(StaleDoc("diff"))
    ELSE json_dump(StaleDoc("baseline"))

InitialDirs(p) ==
    LET files == DescriptorFiles(p) IN
    {[g \in {files[k] : k \in found} |->
        FoundContent(CHOOSE k \in found : files[k] = g)] :
        found \in SUBSET DOMAIN files}

InitCloc ==
    /\ args = None
    /\ report = None
    /\ printed = None
    /\ error = "none"
    /\ pc = "cloc"
    /\ projects \in {<<p>> : p \in ClocDescriptors}
    /\ fs \in InitialDirs(projects[1])
    /\ call = NoCall
    /\ PipelineNotStarted

\* report = projects[1].run_cloc(), with the tool ending in some way if it runs
RunClocCall ==
    /\ pc = "cloc"
    /\ call.n < MaxCalls
    /\ \E outcome \in ToolOutcomes(projects[1]) :
       \E res \in {run_cloc(projects[1], fs, outcome)} :
        /\ fs' = res.dir
        /\ error' = res.exc
        /\ call' = [n             |-> call.n + 1,
                    exc           |-> res.exc,
                    value         |-> res.value,
                    tool_calls    |-> res.tool_calls,
                    ops           |-> res.ops,
                    rc            |-> IF res.tool_calls = 0 THEN 0 ELSE outcome.rc,
                    git           |-> outcome.git,
                    stderr        |-> res.stderr,
                    before        |-> projects[1],
                    fs_before     |-> fs,
                    fs_tool       |-> res.tool_dir,
                    tools_run     |-> call.tools_run + res.tool_calls,
                    prior_success |-> call.succeeded,
                    succeeded     |-> call.succeeded \/ res.exc = "none"]
        /\ projects' = <<res.project>>
    /\ UNCHANGED <<args, report, printed, pc, pipelineVars>>

NextCloc == RunClocCall

SpecCloc == InitCloc /\ [][NextCloc]_vars

(***************************************************************************)
(* Claims on run_cloc, checked under SpecCloc.                             *)
(***************************************************************************)
Called == call.n > 0

TheDescriptor == projects[1]

KeyRank(k) == CHOOSE i \in 1..Len(SortedKeyOrder) : SortedKeyOrder[i] = k

\* the keys of a text are in ascending order, and so are those of every object in it
RECURSIVE IsSortedText(_)
IsSortedText(text) ==
    /\ \A i, j \in 1..Len(text) : i < j => KeyRank(text[i][1]) < KeyRank(text[j][1])
    /\ \A i \in 1..Len(text) : IsNumberKey(text[i][1]) \/ IsSortedText(text[i][2])

WrittenFiles == {call.ops[i][2] : i \in {j \in 1..Len(call.ops) : call.ops[j][1] = "write"}}

\* C3: a run_cloc call that follows a successful run_cloc call of the same
\* descriptor does not invoke the counting tool.
C3_NoToolAfterSuccess ==
    (Called /\ call.prior_success) => call.tool_calls = 0

\* a call that reuses the files a tool run of an earlier call produced
C3_Witness ==
    /\ call.n = 2
    /\ call.prior_success
    /\ call.tools_run = 1
    /\ call.tool_calls = 0
    /\ call.exc = "none"

\* C4: after a run_cloc call that returned a report, every file the call wrote
\* holds a document it returned, written with sorted keys at every level in the
\* layout of json.dump; and a call that follows a successful call leaves every
\* file of the directory as it was.
C4_Reserialization ==
    /\ (Called /\ call.exc = "none") =>
          /\ WrittenFiles # {}
          /\ \A f \in WrittenFiles :
                /\ Exists(fs, f)
                /\ fs[f].layout = "indent2"
                /\ IsSortedText(fs[f].text)
                /\ json_load(fs[f].text) \in {call.value.baseline_raw,
                                              call.value.cheri_raw,
                                              call.value.diff_raw}
    /\ (Called /\ call.prior_success) => fs = call.fs_before

\* a second call that rewrote the files the first call had rewritten from the
\* tool's output
C4_Witness ==
    /\ call.n = 2
    /\ call.prior_success
    /\ call.tools_run = 1
    /\ call.exc = "none"
    /\ Len(call.ops) > 0
    /\ fs = call.fs_before

\* C7: a run_cloc call whose tool run exits non-zero invokes the tool once,
\* fails with CalledProcessError, returns no report and reads, writes and
\* removes no file.
C7_ToolFailurePropagates ==
    (Called /\ call.tool_calls > 0 /\ call.rc # 0) =>
        /\ call.tool_calls = 1
        /\ call.exc = "CalledProcessError"
        /\ call.value = None
        /\ call.ops = <<>>
        /\ fs = call.fs_tool

\* a failed tool run that had written some of its files
C7_Witness ==
    /\ Called
    /\ call.tool_calls = 1
    /\ call.rc # 0
    /\ call.fs_tool # call.fs_before
    /\ call.exc = "CalledProcessError"

\* the documents of the descriptor of which the directory holds neither the
\* tool's file nor the rewritten one
AbsentDocuments(p, dir) ==
    LET files == DescriptorFiles(p) IN
    {k \in (IF p.kind = "Project" THEN {"baseline", "cheri", "diff"} ELSE {"baseline"}) :
        /\ ~Exists(dir, files[IF k = "baseline" THEN "baseline_json"
                              ELSE IF k = "cheri" THEN "cheri_json" ELSE "diff_json"])
        /\ (k \in DOMAIN files => ~Exists(dir, files[k]))}

ToolExitedZero == Called /\ call.tool_calls = 1 /\ call.rc = 0

\* C8 as stated: after a tool run that exited zero, run_cloc fails with an
\* assertion and returns no report if any of the documents is absent.
C8_AnyDocumentAbsent ==
    (ToolExitedZero /\ AbsentDocuments(TheDescriptor, call.fs_tool) # {}) =>
        (call.exc = "AssertionError" /\ call.value = None)

\* C8 amended: after a tool run that exited zero, run_cloc fails with an
\* assertion and returns no report if the baseline-count or the modified-count
\* document is absent; if only the diff document is absent, run_cloc returns a
\* report without a diff.
C8_CountDocumentAbsent ==
    /\ (ToolExitedZero /\ AbsentDocuments(TheDescriptor, call.fs_tool) \ {"diff"} # {}) =>
          (call.exc = "AssertionError" /\ call.value = None)
    /\ (ToolExitedZero /\ AbsentDocuments(TheDescriptor, call.fs_tool) = {"diff"}) =>
          (call.exc = "none" /\ call.value # None /\ call.value.diff = None)

\* a tool run that exited zero and wrote the two count documents but no diff
C8_Witness ==
    /\ ToolExitedZero
    /\ AbsentDocuments(TheDescriptor, call.fs_tool) = {"diff"}
    /\ call.fs_tool # call.fs_before
    /\ call.value # None

(***************************************************************************)
(* Spec: the top level of the module, lines 883-1018, on a registry of at  *)
(* most MaxProjects descriptors and an empty reports directory.            *)
(***************************************************************************)
\* the master target list (lines 859-881), cut down to three targets
all_cheribuild_targets == {"qtbase", "sqlite", "tigervnc"}

\* Path(...).name of a path given as the sequence of its components
PathName(path) == path[Len(path)]

\* the descriptors the registries of the model are made of
QtBase ==
    Project(<<"qt5", "qtbase">>, <<"q", " ", "1">>, GitRef("baseline", "h1"),
            GitRef("master", "h2"), FALSE, FALSE, <<>>)

\* its name differs from QtBase's and is the same macro identifier
TigerVnc ==
    UnmodifiedProject(<<"tigervnc">>, <<"q", "-", "1">>, GitRef("master", "h1"),
                      FALSE, <<>>)

\* commented, and shown under the name of QtBase
TigerVncCommented ==
    UnmodifiedProject(<<"tigervnc">>, <<"v">>, GitRef("master", "h1"), TRUE,
                      <<"q", " ", "1">>)

\* both targets, in directories that hold no tracked language
Headers == UnmodifiedDirectories(<<"tigervnc", "qtbase">>, <<"d">>, FALSE, <<>>)

\* a target that the master list does not have
Nginx ==
    Project(<<"nginx">>, <<"n">>, GitRef("baseline", "h1"), GitRef("master", "h2"),
            FALSE, TRUE, <<>>)

\* commented, under a name of its own
Sqlite ==
    UnmodifiedProject(<<"sqlite">>, <<"s">>, GitRef("master", "h1"), TRUE, <<>>)

\* commented, in a directory that holds no tracked language
HeadersCommented == UnmodifiedDirectories(<<"tigervnc">>, <<"h">>, TRUE, <<>>)

\* the sources of QtBase at one revision: the same counts as TigerVnc
QtBaseUnmodified ==
    UnmodifiedProject(<<"qt5", "qtbase">>, <<"u">>, GitRef("master", "h2"), FALSE,
                      <<>>)

\* changed, with no change that is specific to CHERI (as in lines 650-652)
TigerVncPatched ==
    Project(<<"tigervnc">>, <<"t">>, GitRef("baseline", "h1"), GitRef("master", "h2"),
            FALSE, TRUE, <<>>)

PipelineDescriptors ==
    {QtBase, TigerVnc, TigerVncCommented, Headers, Nginx, Sqlite, HeadersCommented,
     QtBaseUnmodified}

\* registries of three descriptors: the last one is presented first and the
\* two others have equal sort keys; a commented one is presented between two
\* that are not; two changed projects, one of them with no change specific to
\* CHERI, and an unchanged one in another language
LongRegistries ==
    {<<TigerVnc, QtBaseUnmodified, HeadersCommented>>,
     <<QtBase, TigerVncCommented, QtBaseUnmodified>>,
     <<QtBase, TigerVncPatched, TigerVnc>>}

\* the descriptors constructed, dsbd_non_total_count_projects and dsbd_projects
\* one after the other
Registries ==
    UNION {[1..n -> PipelineDescriptors] : n \in 1..MaxProjects} \cup LongRegistries

\* the two lists of lines 597-636 and 640-855, as constructed
RegistryLists ==
    UNION {{[dsbd_non_total_count_projects |-> SubSeq(r, 1, k),
             dsbd_projects |-> SubSeq(r, k + 1, Len(r))] : k \in 0..Len(r)} :
           r \in Registries}

\* a registry in which the loop of lines 637-638 runs over both lists
registry_all_commented(non_total, rest) ==
    [i \in 1..Len(non_total \o rest) |->
        [(non_total \o rest)[i] EXCEPT !.commented = TRUE]]

\* lines 637-638 and 856: the descriptors of the first list are flagged
\* commented, and projects is the two lists one after the other
registry(non_total, rest) ==
    [i \in 1..Len(non_total) |-> [non_total[i] EXCEPT !.commented = TRUE]] \o rest

\* what the tool counts in the sources of a descriptor
TreeDoc(p, output) ==
    IF p.kind = "Project" THEN FreshDoc(output)
    ELSE IF p.kind = "UnmodifiedProject" THEN StaleDoc("baseline")
    ELSE ("SUM" :> ClocSummary(0, 0, 5, 1))
         @@ ("C/C++ Header" :> ClocSummary(0, 0, 5, 1))

\* the documents the tool can write for an output: the diff of a Project can
\* also be one of files that changed in no line of code
TreeDocs(p, output) ==
    IF p.kind = "Project" /\ output = "diff"
    THEN {FreshDoc("diff"), StaleDoc("diff")}
    ELSE {TreeDoc(p, output)}

\* the ways a run of the tool on the sources of a descriptor can end
PipelineOutcomes(p) ==
    {[rc |-> rc, files |-> files, git |-> git] :
        rc \in {0, 1}, git \in GitOutcomes(p),
        files \in UNION {{f \in [written -> UNION {TreeDocs(p, k) : k \in written}] :
                            \A k \in written : f[k] \in TreeDocs(p, k)} :
                         written \in SUBSET ToolOutputs(p)}}

\* the targets lines 888-898 take from a descriptor, in their order
targets_of(p) ==
    IF p.kind = "UnmodifiedDirectories" THEN p.directories
    ELSE <<PathName(p.repo_subdir)>>

\* lines 888-898 without the asserts of lines 890 and 896
RECURSIVE check_targets_unasserted(_, _)
check_targets_unasserted(tgts, missing) ==
    IF tgts = <<>> THEN [exc |-> "none", missing |-> missing]
    ELSE check_targets_unasserted(Tail(tgts), missing \ {Head(tgts)})

\* lines 888-898 on these targets: the failed assert, if any, and
\* missing_projects as it is left
RECURSIVE check_targets(_, _)
check_targets(tgts, missing) ==
    IF tgts = <<>> THEN [exc |-> "none", missing |-> missing]
    ELSE IF Head(tgts) \notin all_cheribuild_targets
         THEN [exc |-> "AssertionError", missing |-> missing]
    ELSE check_targets(Tail(tgts), missing \ {Head(tgts)})

\* lines 597-636 and 640-855, with the names bound at lines 883-885
Init ==
    /\ args \in RegistryLists
    /\ report = None
    /\ printed = None
    /\ error = "none"
    /\ pc = "registry"
    /\ projects = <<>>
    /\ fs = EmptyDir
    /\ call = NoCall
    /\ idx = 1
    /\ reports = <<>>
    /\ missing_projects = all_cheribuild_targets \ {"sqlite"}
    /\ total = None
    /\ subset_totals = EmptyDir
    /\ outputs = EmptyDir
    /\ macro_defs = <<>>
    /\ ensure_unique_project_names = {}

\* lines 637-638 and 856; the two lists are not read again
BuildRegistry ==
    /\ pc = "registry"
    /\ projects' = registry(args.dsbd_non_total_count_projects, args.dsbd_projects)
    /\ args' = None
    /\ pc' = "count"
    /\ UNCHANGED <<report, printed, error, fs, call, pipelineVars>>

\* one iteration of the loop of lines 886-898
CountStep ==
    /\ pc = "count"
    /\ idx <= Len(projects)
    /\ \E outcome \in PipelineOutcomes(projects[idx]) :
       \E res \in {run_cloc(projects[idx], fs, outcome)} :
       \E chk \in {check_targets(targets_of(projects[idx]), missing_projects)} :
        /\ fs' = res.dir
        /\ projects' = [projects EXCEPT ![idx] = res.project]
        /\ IF res.exc # "none"
           THEN /\ error' = res.exc
                /\ pc' = "failed"
                /\ UNCHANGED <<idx, reports, missing_projects>>
           ELSE /\ reports' = Append(reports, res.value)
                /\ missing_projects' = chk.missing
                /\ error' = chk.exc
                /\ pc' = IF chk.exc = "none" THEN "count" ELSE "failed"
                /\ idx' = IF chk.exc = "none" THEN idx + 1 ELSE idx
    /\ UNCHANGED <<args, report, printed, call, total, subset_totals,
                   outputs, macro_defs, ensure_unique_project_names>>

\* a check of missing_projects that is made before the loop has ended
MissingCheck_before_end ==
    /\ pc = "count"
    /\ IF missing_projects # {}
       THEN /\ idx > Len(projects)
            /\ printed' = [did_not_include |-> missing_projects]
            /\ error' = "SystemExit(1)"
            /\ pc' = "failed"
            /\ UNCHANGED <<idx, total, subset_totals>>
       ELSE /\ total' = SummaryReport
            /\ subset_totals' = EmptyDir
            /\ idx' = 1
            /\ pc' = "aggregate"
            /\ UNCHANGED <<printed, error>>
    /\ UNCHANGED <<args, report, projects, fs, call, reports, missing_projects,
                   outputs, macro_defs, ensure_unique_project_names>>

\* a run that goes on whatever missing_projects holds
MissingCheck_ignoring_missing ==
    /\ pc = "count"
    /\ idx > Len(projects)
    /\ total' = SummaryReport
    /\ subset_totals' = EmptyDir
    /\ idx' = 1
    /\ pc' = "aggregate"
    /\ UNCHANGED <<printed, error>>
    /\ UNCHANGED <<args, report, projects, fs, call, reports, missing_projects,
                   outputs, macro_defs, ensure_unique_project_names>>

\* lines 900-902 and, when the run goes on, 931-932
MissingCheck ==
    /\ pc = "count"
    /\ idx > Len(projects)
    /\ IF missing_projects # {}
       THEN /\ printed' = [did_not_include |-> missing_projects]
            /\ error' = "SystemExit(1)"
            /\ pc' = "failed"
            /\ UNCHANGED <<idx, total, subset_totals>>
       ELSE /\ total' = SummaryReport
            /\ subset_totals' = EmptyDir
            /\ idx' = 1
            /\ pc' = "aggregate"
            /\ UNCHANGED <<printed, error>>
    /\ UNCHANGED <<args, report, projects, fs, call, reports, missing_projects,
                   outputs, macro_defs, ensure_unique_project_names>>

\* an iteration that does not look at project.commented
AggregateStep_commented_too ==
    /\ pc = "aggregate"
    /\ idx <= Len(reports)
    /\ \E res \in {print_info(reports[idx])} :
        /\ printed' = res.value
        /\ IF res.exc # "none"
           THEN /\ error' = res.exc
                /\ pc' = "failed"
                /\ UNCHANGED <<idx, total, subset_totals>>
           ELSE \E agg \in {aggregate(total, subset_totals, reports[idx])} :
                /\ total' = agg.total
                /\ subset_totals' = agg.subsets
                /\ error' = agg.exc
                /\ pc' = IF agg.exc = "none" THEN "aggregate" ELSE "failed"
                /\ idx' = IF agg.exc = "none" THEN idx + 1 ELSE idx
    /\ UNCHANGED <<args, report, projects, fs, call, reports, missing_projects,
                   outputs, macro_defs, ensure_unique_project_names>>

\* one iteration of the loop of lines 933-943
AggregateStep ==
    /\ pc = "aggregate"
    /\ idx <= Len(reports)
    /\ \E res \in {print_info(reports[idx])} :
        /\ printed' = res.value
        /\ IF res.exc # "none"
           THEN /\ error' = res.exc
                /\ pc' = "failed"
                /\ UNCHANGED <<idx, total, subset_totals>>
           ELSE IF reports[idx].project.commented
           THEN /\ idx' = idx + 1
                /\ UNCHANGED <<error, pc, total, subset_totals>>
           ELSE \E agg \in {aggregate(total, subset_totals, reports[idx])} :
                /\ total' = agg.total
                /\ subset_totals' = agg.subsets
                /\ error' = agg.exc
                /\ pc' = IF agg.exc = "none" THEN "aggregate" ELSE "failed"
                /\ idx' = IF agg.exc = "none" THEN idx + 1 ELSE idx
    /\ UNCHANGED <<args, report, projects, fs, call, reports, missing_projects,
                   outputs, macro_defs, ensure_unique_project_names>>

\* lines 945-963
PrintSummary ==
    /\ pc = "aggregate"
    /\ idx > Len(reports)
    /\ \E exc \in {summary_exc(total, subset_totals)} :
        /\ error' = exc
        /\ pc' = IF exc = "none" THEN "sort" ELSE "failed"
        /\ printed' = IF exc = "none"
                      THEN [total |-> total, subset_totals |-> subset_totals]
                      ELSE printed
    /\ UNCHANGED <<args, report, projects, fs, call, pipelineVars>>

\* line 966
SortReports ==
    /\ pc = "sort"
    /\ reports' = sort_reports(reports)
    /\ pc' = "table"
    /\ UNCHANGED <<args, report, printed, error, projects, fs, call, idx,
                   missing_projects, total, subset_totals, outputs, macro_defs,
                   ensure_unique_project_names>>

\* lines 968-1003: the table body, the two table files, and the names of the
\* macro loop
WriteTable ==
    /\ pc = "table"
    /\ \E table_body \in {table_rows(reports)} :
        outputs' = ("table-data-rows.tex" :> [table_body |-> table_body])
                   @@ ("table.tex" :> [latex |-> <<"\\begin{table}", table_body,
                                                   "\\end{table}">>])
                   @@ outputs
    /\ macro_defs' = <<>>
    /\ ensure_unique_project_names' = {}
    /\ idx' = 1
    /\ pc' = "macros"
    /\ UNCHANGED <<args, report, printed, error, projects, fs, call, reports,
                   missing_projects, total, subset_totals>>

\* one iteration of the loop of lines 1004-1007
MacroStep ==
    /\ pc = "macros"
    /\ idx <= Len(reports)
    /\ macro_defs' = macro_defs \o macro_definitions(reports[idx])
    /\ IF project_name_for_latex(reports[idx]) \in ensure_unique_project_names
       THEN /\ error' = "AssertionError"
            /\ pc' = "failed"
            /\ UNCHANGED <<idx, ensure_unique_project_names>>
       ELSE /\ ensure_unique_project_names' =
                ensure_unique_project_names \cup {project_name_for_latex(reports[idx])}
            /\ idx' = idx + 1
            /\ UNCHANGED <<error, pc>>
    /\ UNCHANGED <<args, report, printed, projects, fs, call, reports,
                   missing_projects, total, subset_totals, outputs>>

\* the three macros of lines 1012-1014
worst_macros(worst_report) ==
    <<[macro |-> <<"ChangedSlocMax">>, value |-> changed_loc_abs(worst_report)],
      [macro |-> <<"ChangedSlocMaxRatio">>,
       value |-> changed_loc_percent(worst_report).value],
      [macro |-> <<"ChangedSlocMaxProject">>,
       value |-> project_name_for_latex(worst_report)]>>

\* lines 1009-1018
WriteMacros ==
    /\ pc = "macros"
    /\ idx > Len(reports)
    /\ IF reports = <<>>
       THEN /\ error' = "ValueError"     \* max() of an empty list
            /\ pc' = "failed"
            /\ UNCHANGED <<macro_defs, outputs>>
       ELSE \E worst_report \in {max_report(Head(reports), Tail(reports))} :
            /\ macro_defs' = macro_defs \o worst_macros(worst_report)
            /\ outputs' = ("changes-macros.tex" :> [macro_defs |-> macro_defs'])
                          @@ outputs
            /\ pc' = "done"
            /\ UNCHANGED error
    /\ UNCHANGED <<args, report, printed, projects, fs, call, idx, reports,
                   missing_projects, total, subset_totals,
                   ensure_unique_project_names>>

Next ==
    \/ BuildRegistry
    \/ CountStep
    \/ MissingCheck
    \/ AggregateStep
    \/ PrintSummary
    \/ SortReports
    \/ WriteTable
    \/ MacroStep
    \/ WriteMacros

Spec == Init /\ [][Next]_vars

(***************************************************************************)
(* Claims on the names of the macros (lines 1002-1007).                    *)
(***************************************************************************)
\* the macro identifier of a report
MacroName(r) == escape_name_for_macro(project_name_for_latex(r))

\* the run has ended on the assert of line 1006
DuplicateNameError ==
    pc = "failed" /\ error = "AssertionError" /\ macro_defs # <<>>

\* C5 (as stated): whenever two reports have display names that are the same
\* macro identifier, the run fails: a run that reaches its end has no two
\* reports with equal escape_name_for_macro results.
C5_MacroNamesUnique ==
    pc = "done" =>
        \A i, j \in 1..Len(reports) :
            i # j => MacroName(reports[i]) # MacroName(reports[j])

\* C6 (as stated): when the assert on a duplicated display name fails, no
\* output file has been written.
C6_NoOutputBeforeDuplicateError ==
    DuplicateNameError => DOMAIN outputs = {}

(***************************************************************************)
(* Claims on the aggregation loop (lines 933-943).                         *)
(***************************************************************************)
\* main_language of the report is the sentinel
NoTrackedLanguage(r) == main_language(r).value = "????"

\* the run is past the aggregation loop
Aggregated == pc \in {"sort", "table", "macros", "done"} \/ DOMAIN outputs # {}

\* C11 (as stated): a report of any project of the registry whose main
\* language is the sentinel makes the run abort, and no output file is written.
C11_UntrackedAlwaysAborts ==
    (\E i \in 1..Len(reports) : NoTrackedLanguage(reports[i])) =>
        (pc # "done" /\ DOMAIN outputs = {})

\* C11 (amended): a report of a project that is not commented whose main
\* language is the sentinel makes the run abort with ValueError in the
\* aggregation loop, and no output file is written; the report of a commented
\* project is not looked at, and the run goes on.
C11_UntrackedAbortsUnlessCommented ==
    /\ Aggregated =>
          \A i \in 1..Len(reports) :
              NoTrackedLanguage(reports[i]) => reports[i].project.commented
    /\ pc = "aggregate" =>
          \A i \in 1..Len(reports) :
              (i < idx /\ NoTrackedLanguage(reports[i])) => reports[i].project.commented
    /\ (pc = "failed" /\ error = "ValueError") =>
          /\ DOMAIN outputs = {}
          /\ NoTrackedLanguage(reports[idx])
          /\ ~reports[idx].project.commented

\* the run has aborted on the report of a project without tracked language
C11_Witness ==
    /\ pc = "failed"
    /\ error = "ValueError"
    /\ NoTrackedLanguage(reports[idx])
    /\ reports[idx].languages = <<>>

(***************************************************************************)
(* SpecRatios: the CLOCReport constructor and print_info on baseline       *)
(* documents whose tracked languages have code lines that make a share     *)
(* exactly 1% (1 of 1 + 99), less (1 of 1 + 100) and shares whose floats   *)
(* are rounded up (23, 6 and 1 of 30).                                     *)
(***************************************************************************)
RatioLocValues == {0, 1, 6, 23, 99, 100}

RatioLanguageChoices ==
    UNION {[S -> RatioLocValues] : S \in SUBSET Range(TrackedLanguages)}

RatioDocs == {CountDoc(c, 0) : c \in RatioLanguageChoices}

InitRatios ==
    /\ args \in [baseline_raw : RatioDocs, cheri_raw : {None}, diff_raw : {None}]
    /\ report = None
    /\ printed = None
    /\ error = "none"
    /\ pc = "new"
    /\ projects = <<>>
    /\ fs = EmptyDir
    /\ call = NoCall
    /\ PipelineNotStarted

NextRatios == Construct \/ PrintInfo

SpecRatios == InitRatios /\ [][NextRatios]_vars

(***************************************************************************)
(* Claims on language_ratios (lines 146-161), under SpecRatios.            *)
(***************************************************************************)
\* the code lines of a tracked language in the baseline document given to the
\* constructor (0 if the document has no entry for it)
RawLoc(lang) ==
    IF lang \in DOMAIN args.baseline_raw /\ "code" \in DOMAIN args.baseline_raw[lang]
    THEN args.baseline_raw[lang].code ELSE 0

\* the code lines of all tracked languages of that document
RawTrackedLoc == RawLoc("Assembly") + RawLoc("C") + RawLoc("C++")

\* language_ratios of the constructed report has returned its dict
RatiosReturned == Constructed /\ language_ratios(report.languages).exc = "none"

\* the dict language_ratios returns for the constructed report
Ratios == language_ratios(report.languages).value

\* C12: language_ratios maps a tracked language to its code lines over the code
\* lines of all tracked languages of the report; a tracked language is a key of
\* the result if and only if its share is more than 1%, and the denominator is
\* the sum over all tracked languages, the dropped ones included.  (The shares
\* are defined when the tracked code lines do not sum to zero.)
C12_LanguageRatios ==
    RatiosReturned =>
        /\ \A lang \in Range(TrackedLanguages) :
              (lang \in Keys(Ratios)) <=>
                  (lang \in DOMAIN args.baseline_raw
                   /\ 100 * RawLoc(lang) > RawTrackedLoc)
        /\ \A j \in 1..Len(Ratios) :
              /\ Ratios[j][2] = RawLoc(Ratios[j][1])
              /\ Ratios[j][3] = RawTrackedLoc
        /\ \A j, k \in 1..Len(Ratios) : j # k => Ratios[j][1] # Ratios[k][1]

\* a report with a displayed language and a language of exactly 1% of the
\* tracked code lines, which is dropped and counted in the denominator
C12_Witness ==
    /\ RatiosReturned
    /\ \E lang \in Range(TrackedLanguages) :
          /\ RawLoc(lang) > 0
          /\ 100 * RawLoc(lang) = RawTrackedLoc
          /\ lang \notin Keys(Ratios)
    /\ \E j \in 1..Len(Ratios) : Ratios[j][3] > Ratios[j][2]

(***************************************************************************)
(* The float values of language_ratios.  ratio = num_loc / total (line 154)*)
(* is a Python float: the IEEE 754 binary64 number nearest to the quotient.*)
(* A float between 0 and 4 is kept as the sequence of its bits in fixed    *)
(* point, most significant first: IntegerBits bits before the binary point *)
(* and FractionBits bits after it.  A share above 1% has its leading one   *)
(* among the first seven fraction bits, so its 53 significant bits and the *)
(* bit that decides the rounding fit in FractionBits bits.                 *)
(***************************************************************************)
\* the significant bits of a binary64 number
MantissaBits == 53

IntegerBits == 2

FractionBits == 62

\* the binary expansion of r / b for 0 <= r < b: its first n fraction bits,
\* followed by one element that tells whether the quotient has more nonzero
\* bits after them (1) or not (0)
RECURSIVE expansion(_, _, _)
expansion(r, b, n) ==
    IF n = 0 THEN <<IF r # 0 THEN 1 ELSE 0>>
    ELSE IF 2 * r >= b THEN <<1>> \o expansion(2 * r - b, b, n - 1)
    ELSE <<0>> \o expansion(2 * r, b, n - 1)

\* the position of the most significant one of a bit sequence (0: it has none)
LeadingOne(bits) ==
    IF \A i \in 1..Len(bits) : bits[i] = 0 THEN 0
    ELSE CHOOSE i \in 1..Len(bits) :
            bits[i] = 1 /\ \A j \in 1..(i - 1) : bits[j] = 0

\* the bits up to the position, the rest zero
truncate_at(bits, last) == [i \in 1..Len(bits) |-> IF i <= last THEN bits[i] ELSE 0]

\* the position of the last zero at or before the position
last_zero(bits, last) ==
    CHOOSE i \in 1..last : bits[i] = 0 /\ \A j \in (i + 1)..last : bits[j] = 1

\* bits + 2^(-position) for bits that are zero after the position: the bits
\* from the last zero at or before the position are flipped
flip_from(bits, k) ==
    [i \in 1..Len(bits) |-> IF i < k THEN bits[i] ELSE IF i = k THEN 1 ELSE 0]

increment_at(bits, last) == flip_from(bits, last_zero(bits, last))

\* round to nearest, ties to even, with the last significant bit at the position
round_at(bits, sticky, last) ==
    IF last >= Len(bits) THEN bits
    ELSE IF /\ bits[last + 1] = 1
            /\ \/ sticky
               \/ bits[last] = 1
               \/ \E i \in (last + 2)..Len(bits) : bits[i] = 1
         THEN increment_at(truncate_at(bits, last), last)
    ELSE truncate_at(bits, last)

\* round to nearest, ties to even, to MantissaBits significant bits
round_to_double(bits, sticky) ==
    IF LeadingOne(bits) = 0 THEN bits
    ELSE round_at(bits, sticky, LeadingOne(bits) + MantissaBits - 1)

\* the float of a quotient, from its integer part and its expansion
float_of(int_part, e) ==
    round_to_double(<<0, int_part>> \o SubSeq(e, 1, FractionBits),
                    e[FractionBits + 1] = 1)

\* the float a / b for 0 <= a <= b, b > 0
float_div(a, b) == float_of(a \div b, expansion(a % b, b, FractionBits))

\* the carry into position i of the sum of two fixed-point numbers
RECURSIVE carry_into(_, _, _)
carry_into(x, y, i) ==
    IF i = Len(x) THEN 0
    ELSE (x[i + 1] + y[i + 1] + carry_into(x, y, i + 1)) \div 2

\* x + y, exactly (the sum is less than 4)
fixed_add(x, y) ==
    [i \in 1..Len(x) |-> (x[i] + y[i] + carry_into(x, y, i)) % 2]

\* the float x + y
float_add(x, y) == round_to_double(fixed_add(x, y), FALSE)

\* x <= y on fixed-point numbers
fixed_leq(x, y) ==
    \/ x = y
    \/ \E i \in 1..Len(x) :
          /\ x[i] < y[i]
          /\ \A j \in 1..(i - 1) : x[j] = y[j]

FixedZero == [i \in 1..(IntegerBits + FractionBits) |-> 0]

\* 1.0
FixedOne == [FixedZero EXCEPT ![IntegerBits] = 1]

\* the float after 1.0: 1 + 2^-52
NextAfterOne == [FixedOne EXCEPT ![IntegerBits + MantissaBits - 1] = 1]

\* sum(ratios.values()): the float sum of the values, in the order of the dict
RECURSIVE float_sum_from(_, _)
float_sum_from(acc, ratios) ==
    IF ratios = <<>> THEN acc
    ELSE float_sum_from(float_add(acc, float_div(Head(ratios)[2], Head(ratios)[3])),
                        Tail(ratios))

float_sum(ratios) == float_sum_from(FixedZero, ratios)

\* the code lines of a tracked language if language_ratios displays it, else 0
DisplayedLoc(lang) == IF lang \in Keys(Ratios) THEN RawLoc(lang) ELSE 0

\* C13 (as stated): the values of language_ratios sum to at most 1:
\* sum(report.language_ratios.values()) <= 1.0.
C13_FloatSumAtMostOne ==
    RatiosReturned => fixed_leq(float_sum(Ratios), FixedOne)

\* C13 (amended): the shares the values of language_ratios stand for (code
\* lines over the code lines of all tracked languages, each above 1%) sum to at
\* most 1, which is the sum of the shares of all tracked languages; the values
\* are the floats nearest to the shares, and their float sum is at most the
\* float after 1.0 (1 + 2^-52).
C13_SharesSumAtMostOne ==
    RatiosReturned =>
        /\ \A j \in 1..Len(Ratios) :
              /\ Ratios[j][3] = RawTrackedLoc
              /\ 100 * Ratios[j][2] > Ratios[j][3]
        /\ DisplayedLoc("Assembly") + DisplayedLoc("C") + DisplayedLoc("C++")
              <= RawTrackedLoc
        /\ fixed_leq(float_sum(Ratios), NextAfterOne)

\* a report with two displayed languages and a dropped one that has code lines:
\* the values sum to less than 1
C13_Witness ==
    /\ RatiosReturned
    /\ Len(Ratios) = 2
    /\ \E lang \in Range(TrackedLanguages) : RawLoc(lang) > 0 /\ lang \notin Keys(Ratios)
    /\ float_sum(Ratios) # FixedOne
    /\ fixed_leq(float_sum(Ratios), FixedOne)

(***************************************************************************)
(* SpecCombine: combine calls on one SummaryReport (lines 911-929), with   *)
(* any of three reports and either value of ignore_changes.                *)
(***************************************************************************)
\* reports with and without a diff, and one whose diff was normalized
CombineReports ==
    {CLOCReport(SomeProject, FreshDoc("baseline"), FreshDoc("baseline"),
                FreshDoc("diff")).value,
     CLOCReport(SomeProject, StaleDoc("baseline"), None, None).value,
     CLOCReport(SomeProject, StaleDoc("baseline"), None, StaleDoc("diff")).value}

\* total = SummaryReport()
InitCombine ==
    /\ args = <<>>
    /\ report = None
    /\ printed = None
    /\ error = "none"
    /\ pc = "combine"
    /\ projects = <<>>
    /\ fs = EmptyDir
    /\ call = NoCall
    /\ idx = 0
    /\ reports = <<>>
    /\ missing_projects = {}
    /\ total = SummaryReport
    /\ subset_totals = EmptyDir
    /\ outputs = EmptyDir
    /\ macro_defs = <<>>
    /\ ensure_unique_project_names = {}

\* total.combine(report, ignore_changes=...)
Combine ==
    /\ pc = "combine"
    /\ Len(args) < MaxCombines
    /\ \E r \in CombineReports, ignore_changes \in BOOLEAN :
        /\ total' = combine(total, r, ignore_changes)
        /\ args' = Append(args, [report |-> r, ignore_changes |-> ignore_changes])
    /\ UNCHANGED <<report, printed, error, pc, projects, fs, call, idx, reports,
                   missing_projects, subset_totals, outputs, macro_defs,
                   ensure_unique_project_names>>

NextCombine == Combine

SpecCombine == InitCombine /\ [][NextCombine]_vars

\* what one combine call is to add to a field of the SummaryReport
Contribution(c, field) ==
    IF field = "sloc" THEN c.report.baseline.code
    ELSE IF field = "files" THEN c.report.baseline.nFiles
    ELSE IF c.ignore_changes THEN 0
    ELSE IF field = "modified_sloc" THEN changed_loc_abs(c.report)
    ELSE changed_files_abs(c.report)

\* the sum of the contributions of a sequence of calls
RECURSIVE Tally(_, _)
Tally(calls, field) ==
    IF calls = <<>> THEN 0
    ELSE Contribution(Head(calls), field) + Tally(Tail(calls), field)

\* C14: after any sequence of combine calls on one SummaryReport, sloc and
\* files are the sums of baseline.code and baseline.nFiles over all the reports
\* combined, and modified_sloc and modified_files are the sums of
\* changed_loc_abs and changed_files_abs over the reports combined with
\* ignore_changes false; projects lists the project of every report combined.
C14_RunningSums ==
    pc = "combine" =>
        /\ total.sloc = Tally(args, "sloc")
        /\ total.files = Tally(args, "files")
        /\ total.modified_sloc = Tally(args, "modified_sloc")
        /\ total.modified_files = Tally(args, "modified_files")
        /\ total.projects = [i \in 1..Len(args) |-> args[i].report.project]

\* a report with changed lines has been combined with ignore_changes true and
\* one with ignore_changes false
C14_Witness ==
    /\ pc = "combine"
    /\ \E i, j \in 1..Len(args) :
          /\ args[i].ignore_changes /\ changed_loc_abs(args[i].report) > 0
          /\ ~args[j].ignore_changes /\ changed_files_abs(args[j].report) > 0
    /\ total.modified_sloc > 0
    /\ total.modified_sloc < Tally([i \in 1..Len(args) |->
                                      [args[i] EXCEPT !.ignore_changes = FALSE]],
                                   "modified_sloc")

(***************************************************************************)
(* Claims on the order of presentation (lines 965-966, 976-986, 1002-1007).*)
(***************************************************************************)
\* k1 <= k2 on sort keys
key_leq(k1, k2) == ~key_less(k2, k1)

\* after lists the elements of before in ascending order of their keys, the
\* ones of equal keys in the order they have in before
IsStableSortOf(after, before) ==
    /\ Len(after) = Len(before)
    /\ \E place \in [1..Len(after) -> 1..Len(before)] :
        /\ \A i, j \in 1..Len(after) : i # j => place[i] # place[j]
        /\ \A i \in 1..Len(after) : after[i] = before[place[i]]
        /\ \A i, j \in 1..Len(after) :
              i < j =>
                /\ key_leq(sort_key(after[i]), sort_key(after[j]))
                /\ key_leq(sort_key(after[j]), sort_key(after[i])) => place[i] < place[j]

\* the reports are in their final order
Sorted == pc \in {"table", "macros", "done"} \/ DOMAIN outputs # {}

\* the number of macros of one block
MacroBlockLen == 5

\* the macro blocks written so far are the blocks of the first reports
MacroBlocksInOrder ==
    /\ Len(macro_defs) >= MacroBlockLen * (IF pc = "macros" THEN idx - 1 ELSE 0)
    /\ \A k \in 1..Len(reports) :
          MacroBlockLen * k <= Len(macro_defs) =>
              SubSeq(macro_defs, MacroBlockLen * (k - 1) + 1, MacroBlockLen * k)
                  = macro_definitions(reports[k])

\* the rows of the table body are the rows of the reports
TableRowsInOrder ==
    "table-data-rows.tex" \in DOMAIN outputs =>
        /\ Len(outputs["table-data-rows.tex"].table_body) = Len(reports)
        /\ \A k \in 1..Len(reports) :
              outputs["table-data-rows.tex"].table_body[k].row = latex_row(reports[k])
        /\ outputs["table.tex"].latex[2] = outputs["table-data-rows.tex"].table_body

FullyConstructed(r) ==
    /\ r.baseline = from_dict_ClocSummary(r.baseline_raw.SUM)
    /\ r.languages = parse_languages(r.baseline_raw)
    /\ (r.diff_raw = None) = (r.diff = None)
    /\ r.diff # None =>
        /\ r.diff \in {from_dict_ClocDiff(r.diff_raw.SUM),
                       [from_dict_ClocDiff(r.diff_raw.SUM) EXCEPT !.modified.nFiles = 0]}
        /\ diff_changed_loc_abs(r.diff) = 0 => diff_changed_files_abs(r.diff) = 0

\* the SummaryReport of a key of the defaultdict
SubsetTotal(subsets, key) ==
    IF key \in DOMAIN subsets THEN subsets[key] ELSE SummaryReport

\* new is old after combine calls with the report r alone
RECURSIVE CombinedWith(_, _, _, _)
CombinedWith(new, old, r, calls) ==
    \/ new = old
    \/ /\ calls > 0
       /\ \E ignore_changes \in BOOLEAN :
            CombinedWith(new, combine(old, r, ignore_changes), r, calls - 1)

\* the totals exist
TotalsStarted == total # None

\* C16: a total is updated only with the figures of a report that is fully
\* constructed (diff normalization included), and only when every report of
\* the registry has been constructed; while reports are constructed no total
\* exists, and once the totals exist no report is constructed.
C16_TotalsAfterConstruction ==
    /\ [](pc = "count" => ~TotalsStarted /\ subset_totals = EmptyDir)
    /\ [](TotalsStarted => /\ Len(reports) = Len(projects)
                           /\ \A i \in 1..Len(reports) : FullyConstructed(reports[i]))
    /\ [][/\ TotalsStarted =>
                /\ Len(reports') = Len(reports)
                /\ fs' = fs
                /\ TotalsStarted'
          /\ TotalsStarted /\ <<total, subset_totals>>' # <<total, subset_totals>> =>
                /\ pc = "aggregate" /\ idx \in 1..Len(reports)
                /\ reports' = reports
                /\ total' = combine(total, reports[idx], FALSE)
                /\ \A k \in DOMAIN subset_totals' :
                      CombinedWith(SubsetTotal(subset_totals', k),
                                   SubsetTotal(subset_totals, k), reports[idx], 1)]_vars

\* the totals hold the figures of a report of a diff that was normalized, and of
\* a second report constructed after it
C16_Witness ==
    /\ pc = "aggregate"
    /\ idx = 3
    /\ Len(total.projects) = 2
    /\ reports[1].diff # None
    /\ reports[1].diff # from_dict_ClocDiff(reports[1].diff_raw.SUM)
    /\ total.sloc = reports[1].baseline.code + reports[2].baseline.code

(***************************************************************************)
(* Claims on the check of the targets (lines 883-898).                     *)
(***************************************************************************)
\* the descriptor names a target that all_cheribuild_targets does not have
UnknownTarget(p) ==
    \E i \in 1..Len(targets_of(p)) : targets_of(p)[i] \notin all_cheribuild_targets

RegistryHasUnknownTarget == \E i \in 1..Len(projects) : UnknownTarget(projects[i])

\* the run never gets past the loop of lines 886-898, and ends on an exception
FailsInCountingLoop ==
    /\ pc \in {"count", "failed"}
    /\ idx <= Len(projects)
    /\ pc = "failed" => error \in {"AssertionError", "CalledProcessError",
                                   "FileNotFoundError", "KeyError",
                                   "MissingValueError", "AttributeError"}
    /\ ~TotalsStarted

RefFields(p) ==
    IF p.kind = "Project" THEN {"baseline", "cheri"}
    ELSE IF p.kind = "UnmodifiedProject" THEN {"baseline"}
    ELSE {}

\* the last run_cloc call called the hash method of this GitRef
HashCalled(name) ==
    /\ call.n > 0
    /\ name \in RefFields(call.before)
    /\ name = "cheri" => call.git.baseline.rc = 0

\* the call of git rev-parse was made and gave a hash that is not the recorded one
BranchMoved(name) ==
    /\ HashCalled(name)
    /\ ~call.before[name]._GitRef__verified
    /\ call.git[name].rc = 0
    /\ call.git[name].rev_parsed # call.before[name]._hash

\* the warning of lines 33-34
Warning(name) ==
    [branch_hash |-> call.git[name].rev_parsed, branch |-> call.before[name].branch,
     expected |-> call.before[name]._hash]

\* the extensions of the file names made of the recorded hashes of a descriptor
RecordedHashExtensions(p) ==
    IF p.kind = "Project"
    THEN {".report" \o e \o j :
            e \in {"." \o p.baseline._hash, "." \o p.cheri._hash,
                   ".diff." \o p.baseline._hash \o "." \o p.cheri._hash},
            j \in {"", ".json"}}
    ELSE IF p.kind = "UnmodifiedProject"
    THEN {".report." \o p.baseline._hash \o j : j \in {"", ".json"}}
    ELSE {f.ext : f \in DOMAIN fs}

\* C18: a hash call that returns gives the recorded hash; when the branch
\* resolves to another hash the call prints a warning, raises nothing and
\* leaves the recorded hash in place, and the files the tool is asked for and
\* the files read and rewritten are named after the recorded hash.
C18_RecordedHashUsed ==
    call.n > 0 =>
        /\ \A name \in RefFields(call.before) :
            /\ projects[1][name]._hash = call.before[name]._hash
            /\ projects[1][name].branch = call.before[name].branch
            /\ GitRef_hash_call(call.before[name], call.git[name]).exc = "none" =>
                  GitRef_hash_call(call.before[name], call.git[name]).value
                      = Some(call.before[name]._hash)
            /\ BranchMoved(name) =>
                  /\ \E i \in 1..Len(call.stderr) : call.stderr[i] = Warning(name)
                  /\ projects[1][name]._GitRef__verified
        /\ Len(call.stderr) = Cardinality({name \in RefFields(call.before) : BranchMoved(name)})
        /\ (\A name \in RefFields(call.before) : call.git[name].rc = 0) =>
              /\ \A name \in RefFields(call.before) :
                    projects[1][name]._GitRef__verified
              /\ call.exc = "CalledProcessError" => call.tool_calls = 1
        /\ \A f \in DOMAIN fs \cup DOMAIN call.fs_tool :
              f.ext \in RecordedHashExtensions(call.before)
        /\ call.exc = "none" =>
              /\ call.value.project = projects[1]
              /\ \E f \in DOMAIN fs :
                    f.ext \in RecordedHashExtensions(call.before) /\ f.ext # ".report"

\* a run_cloc call of a Project whose two branches have moved has run the
\* tool and returned a report
C18_Witness ==
    /\ call.n > 0
    /\ BranchMoved("baseline")
    /\ BranchMoved("cheri")
    /\ call.tool_calls = 1
    /\ call.exc = "none"
    /\ Len(call.stderr) = 2
    /\ DOMAIN call.fs_tool # DOMAIN call.fs_before

(***************************************************************************)
(* Claims on the table body (lines 976-986).                               *)
(***************************************************************************)
\* table_body as it was written to table-data-rows.tex
WrittenTableBody == outputs["table-data-rows.tex"].table_body

\* C19: the table body written has one row per report, in the order of the
\* reports, the reports of commented projects included; the row of a commented
\* project, and no other row, has the comment marker "% " before it.
C19_OneRowPerReport ==
    "table-data-rows.tex" \in DOMAIN outputs =>
        /\ Len(WrittenTableBody) = Len(reports)
        /\ Len(WrittenTableBody) = Len(projects)
        /\ \A k \in 1..Len(reports) :
            /\ WrittenTableBody[k].row = latex_row(reports[k])
            /\ WrittenTableBody[k].prefix \in {"% ", ""}
            /\ (WrittenTableBody[k].prefix = "% ") = reports[k].project.commented
        /\ Cardinality({k \in 1..Len(reports) : WrittenTableBody[k].prefix = "% "})
              = Cardinality({i \in 1..Len(projects) : projects[i].commented})

\* a table body has been written with the row of a commented project between
\* the rows of two projects that are not commented
C19_Witness ==
    /\ "table-data-rows.tex" \in DOMAIN outputs
    /\ Len(WrittenTableBody) = 3
    /\ reports[2].project.commented
    /\ WrittenTableBody[2].prefix = "% "
    /\ ~reports[1].project.commented /\ WrittenTableBody[1].prefix = ""
    /\ ~reports[3].project.commented /\ WrittenTableBody[3].prefix = ""

(***************************************************************************)
(* Claims on the descriptors (lines 289-433, 597-638, 856).                *)
(***************************************************************************)
\* every descriptor constructed, in the order of construction
Descriptors ==
    IF pc = "registry"
    THEN args.dsbd_non_total_count_projects \o args.dsbd_projects
    ELSE projects

\* the descriptor with the verified flag of its GitRefs as constructed
Unverified(p) ==
    IF p.kind = "Project"
    THEN [p EXCEPT !.baseline._GitRef__verified = FALSE,
                   !.cheri._GitRef__verified = FALSE]
    ELSE IF p.kind = "UnmodifiedProject"
    THEN [p EXCEPT !.baseline._GitRef__verified = FALSE]
    ELSE p

\* no verified flag of the descriptor goes back to false
VerifiedKept(p, q) ==
    \A name \in RefFields(p) : p[name]._GitRef__verified => q[name]._GitRef__verified

\* C20 (as stated): no step of the run changes a field of a descriptor.
C20_DescriptorsImmutable == [][Descriptors' = Descriptors]_vars

\* C20 (amended): a step of the run changes a descriptor in two ways only:
\* lines 637-638 set the commented flag of the descriptors of
\* dsbd_non_total_count_projects, before the registry is put together, and a
\* run_cloc call sets the verified flag of the GitRefs of its descriptor; no
\* other field changes, and no descriptor is added or dropped.
C20_DescriptorsChangeOnlyFlags ==
    [][/\ Len(Descriptors') = Len(Descriptors)
       /\ \A i \in 1..Len(Descriptors) :
            IF pc = "registry"
            THEN \/ Descriptors'[i] = Descriptors[i]
                 \/ /\ i <= Len(args.dsbd_non_total_count_projects)
                    /\ Descriptors'[i] = [Descriptors[i] EXCEPT !.commented = TRUE]
            ELSE /\ Unverified(Descriptors'[i]) = Unverified(Descriptors[i])
                 /\ VerifiedKept(Descriptors[i], Descriptors'[i])
                 /\ Descriptors'[i] # Descriptors[i] => pc = "count" /\ i = idx]_vars

\* a run has ended with a descriptor that was constructed as QtBase: it is
\* flagged commented, and its GitRefs are verified
C20_Witness ==
    /\ pc = "done"
    /\ \E i \in 1..Len(projects) :
        /\ projects[i].kind = "Project"
        /\ projects[i].commented
        /\ projects[i].baseline._GitRef__verified
        /\ projects[i].cheri._GitRef__verified
        /\ [Unverified(projects[i]) EXCEPT !.commented = FALSE] = QtBase

(***************************************************************************)
(* Claims on the percentages (lines 125-144), on the reports of SpecReport.*)
(***************************************************************************)
\* the changed code lines and changed files of the raw diff document
RawChangedLoc == IF args.diff_raw = None THEN 0 ELSE RawDiffCode(args.diff_raw)

RawChangedFiles ==
    IF args.diff_raw = None \/ RawChangedLoc = 0 THEN 0
    ELSE args.diff_raw.SUM.modified.nFiles

\* a / b = c / d, for b > 0 and d > 0, by the expansion of the two quotients
\* as continued fractions (no product is formed)
RECURSIVE SameQuotient(_, _, _, _)
SameQuotient(a, b, c, d) ==
    /\ a \div b = c \div d
    /\ IF a % b = 0 \/ c % d = 0 THEN a % b = 0 /\ c % d = 0
       ELSE SameQuotient(b, a % b, d, c % d)

\* the quotient <<n, d>> is the number 100 * part / whole
IsPercentOf(quotient, part, whole) ==
    /\ quotient[2] > 0
    /\ SameQuotient(quotient[1], quotient[2], 100 * part, whole)

\* C21: for every report, changed_loc_percent is 100 * changed_loc_abs /
\* baseline.code and changed_files_percent is 100 * changed_files_abs /
\* baseline.nFiles, on the counts of the raw documents (the division raises
\* ZeroDivisionError on a baseline of no code line, or of no file); print_info
\* prints these values; for a baseline of 132009 code lines with 1000 added,
\* 500 removed and 2000 modified the value is 100 * 3500 / 132009, about 2.65.
C21_PercentOfBaseline ==
    Constructed =>
        /\ IF args.baseline_raw.SUM.code = 0
           THEN changed_loc_percent(report).exc = "ZeroDivisionError"
           ELSE /\ changed_loc_percent(report).exc = "none"
                /\ IsPercentOf(changed_loc_percent(report).value, RawChangedLoc,
                               args.baseline_raw.SUM.code)
        /\ IF args.baseline_raw.SUM.nFiles = 0
           THEN changed_files_percent(report).exc = "ZeroDivisionError"
           ELSE /\ changed_files_percent(report).exc = "none"
                /\ IsPercentOf(changed_files_percent(report).value, RawChangedFiles,
                               args.baseline_raw.SUM.nFiles)
        /\ pc = "printed" =>
              /\ printed.sloc_changed_pc = changed_loc_percent(report).value
              /\ printed.files_changed_pc = changed_files_percent(report).value
        /\ args = LargeProjectArgs =>
              /\ IsPercentOf(changed_loc_percent(report).value, 3500, 132009)
              /\ 2645 * changed_loc_percent(report).value[2]
                    <= 1000 * changed_loc_percent(report).value[1]
              /\ 1000 * changed_loc_percent(report).value[1]
                    < 2655 * changed_loc_percent(report).value[2]

\* the report of the project of 132009 code lines has been printed
C21_Witness ==
    /\ pc = "printed"
    /\ args = LargeProjectArgs
    /\ changed_loc_abs(report) = 3500
    /\ report.baseline.code = 132009
    /\ printed.sloc_changed_pc = <<350000, 132009>>
    /\ printed.files_changed_pc = <<2000, 334>>

(***************************************************************************)
(* Claims on the report file of UnmodifiedDirectories (lines 406-412),     *)
(* checked under SpecCloc.                                                 *)
(***************************************************************************)
\* the directory lists a descriptor may be edited to: one or two different
\* directories, in any order
DirectoryLists ==
    LET names == {"a", "ab", "b", "bc", "c"} IN
    {<<x>> : x \in names}
    \cup {d \in names \X names : d[1] # d[2]}

\* the descriptor with another list of directories
WithDirectories(p, directories) == [p EXCEPT !.directories = directories]

\* result_json of the descriptor (line 410)
result_json_of(p) == DescriptorFiles(p).baseline_json

\* the last call counted the directories of the descriptor and left the report
\* of the count in a directory that was empty before
CountedDirectories ==
    /\ projects[1].kind = "UnmodifiedDirectories"
    /\ call.n > 0
    /\ call.exc = "none"
    /\ call.tool_calls = 1
    /\ DOMAIN call.fs_before = {}

\* C22: two directory lists that differ as sets never map to the same report
\* file, so that a descriptor whose list has changed runs the tool again and
\* does not reuse the report cached for the earlier list; two lists that are
\* permutations of each other map to the same file, and the cached report is
\* reused.
C22_RerunWhenDirectoriesChange ==
    CountedDirectories =>
        \A d \in DirectoryLists :
            LET p == projects[1]
                q == WithDirectories(p, d) IN
            IF Range(d) = Range(p.directories)
            THEN /\ result_json_of(q) = result_json_of(p)
                 /\ \A outcome \in ToolOutcomes(q) :
                        run_cloc(q, fs, outcome).tool_calls = 0
            ELSE /\ result_json_of(q) # result_json_of(p)
                 /\ \A outcome \in ToolOutcomes(q) :
                        run_cloc(q, fs, outcome).tool_calls = 1

\* the report counted on <<"c", "ab">> is returned for the list <<"a", "bc">>
\* without a run of the tool
CachedReportReused ==
    /\ CountedDirectories
    /\ projects[1].directories = <<"c", "ab">>
    /\ \E outcome \in ToolOutcomes(WithDirectories(projects[1], <<"a", "bc">>)) :
        \E res \in {run_cloc(WithDirectories(projects[1], <<"a", "bc">>), fs, outcome)} :
            /\ res.exc = "none"
            /\ res.tool_calls = 0
            /\ res.value.baseline_raw = call.value.baseline_raw
            /\ res.value.project.directories = <<"a", "bc">>

(***************************************************************************)
(* Claims on the files of _parse_json (lines 265-287), checked under       *)
(* SpecCloc on the directories of the run_cloc calls.                      *)
(***************************************************************************)
\* the suffixes the descriptor's run_cloc passes to _parse_json (lines 344-346
\* and 388)
ParseSuffixes(p) ==
    IF p.kind = "Project"
    THEN {"." \o GitRef_hash(p.baseline), "." \o GitRef_hash(p.cheri),
          ".diff." \o GitRef_hash(p.baseline) \o "." \o GitRef_hash(p.cheri)}
    ELSE IF p.kind = "UnmodifiedProject" THEN {"." \o GitRef_hash(p.baseline)}
    ELSE {}

\* the directory before the last call, after its run of the tool, and now
ParseDirs == {call.fs_before, call.fs_tool, fs}

\* the directory is dir but for the files of names
SameButFor(dir1, dir, names) ==
    /\ DOMAIN dir1 \ names = DOMAIN dir \ names
    /\ \A g \in DOMAIN dir \ names : dir1[g] = dir[g]

\* C23: a _parse_json call with a suffix that returns a document leaves no
\* file without the ".json" extension and leaves the file with the extension
\* holding the document returned; if both files exist on entry the document
\* returned is the one of the file without the extension; a call that returns
\* None is an optional one that found neither file, and changes no file.
C23_ParseJsonFiles ==
    \A suffix \in ParseSuffixes(projects[1]), optional \in BOOLEAN, dir \in ParseDirs :
        LET json_base  == ReportPath(projects[1].project_name, ".report")
            json_file  == WithSuffix(json_base, suffix)
            final_file == WithSuffix(json_file, ".json")
            res        == parse_json(dir, json_base, Some(suffix), optional) IN
        /\ (res.exc = "none" /\ res.value # None) =>
              /\ ~Exists(res.dir, json_file)
              /\ Exists(res.dir, final_file)
              /\ res.dir[final_file] = json_dump(res.value)
              /\ json_load(res.dir[final_file].text) = res.value
              /\ SameButFor(res.dir, dir, {json_file, final_file})
        /\ (Exists(dir, json_file) /\ Exists(dir, final_file)) =>
              /\ res.exc = "none"
              /\ res.value = json_load(dir[json_file].text)
        /\ (res.exc = "none" /\ res.value = None) =>
              /\ optional
              /\ ~Exists(dir, json_file)
              /\ ~Exists(dir, final_file)
              /\ res.dir = dir

\* a call found a stale renamed baseline document, ran the tool, and returned
\* the fresh document, which the renamed file now holds; no diff was written
C23_Witness ==
    LET files == DescriptorFiles(projects[1]) IN
    /\ projects[1].kind = "Project"
    /\ call.n > 0
    /\ call.exc = "none"
    /\ call.tool_calls = 1
    /\ Exists(call.fs_tool, files.baseline)
    /\ Exists(call.fs_tool, files.baseline_json)
    /\ json_load(call.fs_tool[files.baseline].text) = FreshDoc("baseline")
    /\ json_load(call.fs_tool[files.baseline_json].text) = StaleDoc("baseline")
    /\ ~Exists(fs, files.baseline)
    /\ fs[files.baseline_json] = json_dump(FreshDoc("baseline"))
    /\ call.value.baseline_raw = FreshDoc("baseline")
    /\ ~Exists(call.fs_tool, files.diff)
    /\ ~Exists(call.fs_tool, files.diff_json)
    /\ call.value.diff_raw = None
    /\ DOMAIN fs = {files.baseline_json, files.cheri_json}

(***************************************************************************)
(* Claims on the totals of the aggregation loop (lines 931-943), checked   *)
(* under Spec.                                                             *)
(***************************************************************************)
\* the reports of rs whose project is not commented, in the order of rs
NotCommented(rs) ==
    LET counted(r) == ~r.project.commented IN SelectSeq(rs, counted)

ProjectsOf(rs) == [i \in 1..Len(rs) |-> rs[i].project]

\* the reports the loop has gone through: all of them once the loop has ended
LoopPrefix ==
    IF pc = "aggregate" THEN SubSeq(reports, 1, idx - 1) ELSE reports

\* the loop of lines 933-943 is running or has ended, and has not raised
InAggregation == pc \in {"aggregate", "sort", "table", "macros", "done"}

AggregationEnded ==
    \/ pc = "aggregate" /\ idx > Len(reports)
    \/ pc \in {"sort", "table", "macros", "done"}

\* the report is one that the loop adds to the SummaryReport of the key
InSubset(r, key) ==
    /\ ~r.project.commented
    /\ \/ key = "CHERI"
       \/ key = "no CHERI" /\ r.project.no_cheri_specific_changes
       \/ key = main_language(r).value
       \/ key = "CHERI, " \o main_language(r).value

RECURSIVE SumCode(_)
SumCode(rs) == IF rs = <<>> THEN 0 ELSE Head(rs).baseline.code + SumCode(Tail(rs))

RECURSIVE SumCodeIn(_, _)
SumCodeIn(rs, key) ==
    IF rs = <<>> THEN 0
    ELSE (IF InSubset(Head(rs), key) THEN Head(rs).baseline.code ELSE 0)
         + SumCodeIn(Tail(rs), key)

Occurrences(seq, x) == Cardinality({i \in DOMAIN seq : seq[i] = x})

\* C24: the global total and every subset total hold contributions of the
\* reports of non-commented projects only: after the loop (and after each of
\* its iterations) total.sloc is the sum of baseline.code over the reports gone
\* through whose project is not commented, each of them is in total.projects
\* exactly as many times as it is in the list of reports, and no commented
\* project is in the projects of a total; the iteration of the report of a
\* commented project changes no total.
C24_OnlyNotCommentedCounted ==
    /\ [](InAggregation =>
            /\ total.sloc = SumCode(NotCommented(LoopPrefix))
            /\ Len(total.projects) = Len(NotCommented(LoopPrefix))
            /\ \A i \in 1..Len(LoopPrefix) :
                  Occurrences(total.projects, LoopPrefix[i].project)
                      = IF LoopPrefix[i].project.commented THEN 0
                        ELSE Occurrences(ProjectsOf(LoopPrefix), LoopPrefix[i].project)
            /\ \A key \in DOMAIN subset_totals :
                  /\ \A i \in 1..Len(subset_totals[key].projects) :
                        ~subset_totals[key].projects[i].commented
                  /\ subset_totals[key].sloc = SumCodeIn(LoopPrefix, key)
                  /\ subset_totals[key].projects # <<>>)
    /\ [][(pc = "aggregate" /\ idx <= Len(reports) /\ reports[idx].project.commented)
            => (total' = total /\ subset_totals' = subset_totals)]_vars

\* the loop has ended on three reports, one of them of a commented project
\* with code lines, and the total holds the two others
C24_Witness ==
    /\ AggregationEnded
    /\ Len(reports) = 3
    /\ \E i \in 1..3 : reports[i].project.commented /\ reports[i].baseline.code > 0
    /\ Len(total.projects) = 2
    /\ total.sloc > 0
    /\ total.sloc = SumCode(NotCommented(reports))
    /\ total.sloc < SumCode(reports)

\* the sloc of the SummaryReports of the main languages
RECURSIVE LanguageSloc(_, _)
LanguageSloc(subsets, order) ==
    IF order = <<>> THEN 0
    ELSE SubsetTotal(subsets, Head(order)).sloc + LanguageSloc(subsets, Tail(order))

\* C25: after every prefix of the aggregation loop, "CHERI" has the sloc and
\* the files of the global total, the modified_sloc of "CHERI" and of
\* "no CHERI" add up to total.modified_sloc (and likewise modified_files), and
\* the sloc of the subsets of the main languages add up to total.sloc.
C25_SubsetsPartitionTotal ==
    InAggregation =>
        LET cheri    == SubsetTotal(subset_totals, "CHERI")
            no_cheri == SubsetTotal(subset_totals, "no CHERI") IN
        /\ cheri.sloc = total.sloc
        /\ cheri.files = total.files
        /\ cheri.modified_sloc + no_cheri.modified_sloc = total.modified_sloc
        /\ cheri.modified_files + no_cheri.modified_files = total.modified_files
        /\ LanguageSloc(subset_totals, MainLanguageOrder) = total.sloc

\* a prefix of three reports: changes specific to CHERI, changes that are
\* not, and a project in another main language
C25_Witness ==
    /\ pc = "aggregate"
    /\ idx = 4
    /\ subset_totals["CHERI"].modified_sloc > 0
    /\ subset_totals["no CHERI"].modified_sloc > 0
    /\ subset_totals["CHERI"].modified_sloc < total.modified_sloc
    /\ subset_totals["no CHERI"].sloc < total.sloc
    /\ subset_totals["C"].sloc > 0
    /\ subset_totals["C++"].sloc > 0
    /\ subset_totals["C"].sloc + subset_totals["C++"].sloc = total.sloc

(***************************************************************************)
(* Claims on the check of the missing targets (lines 883-902), checked     *)
(* under Spec.                                                             *)
(***************************************************************************)
\* the targets of the master list, "sqlite" apart, that no descriptor of the
\* registry refers to
Unreferenced(ps) ==
    (all_cheribuild_targets \ {"sqlite"})
        \ UNION {Range(targets_of(ps[i])) : i \in 1..Len(ps)}

\* the counting loop has gone through every descriptor
CountingEnded == pc = "count" /\ idx > Len(projects)

ExitedOnMissing == pc = "failed" /\ error = "SystemExit(1)"

\* C26: every target of the master list other than "sqlite" must be referred
\* to by a descriptor of the registry: when the counting loop has ended and
\* one is not, the next step prints the missing targets and exits with status
\* 1; the exit comes after every counting step, with no total created and no
\* output file written; totals and output files exist only in runs whose
\* registry refers to every such target.
C26_MissingTargetsExit ==
    /\ [](CountingEnded => missing_projects = Unreferenced(projects))
    /\ [][(CountingEnded /\ Unreferenced(projects) # {}) =>
            /\ ExitedOnMissing'
            /\ printed' = [did_not_include |-> Unreferenced(projects)]]_vars
    /\ [](ExitedOnMissing =>
            /\ Unreferenced(projects) # {}
            /\ printed = [did_not_include |-> Unreferenced(projects)]
            /\ Len(reports) = Len(projects)
            /\ ~TotalsStarted
            /\ subset_totals = EmptyDir
            /\ DOMAIN outputs = {})
    /\ []((TotalsStarted \/ DOMAIN outputs # {}) => Unreferenced(projects) = {})

\* two descriptors were counted, "tigervnc" is referred to by neither, and the
\* run has exited
C26_Witness ==
    /\ ExitedOnMissing
    /\ Len(projects) = 2
    /\ Len(reports) = 2
    /\ printed = [did_not_include |-> {"tigervnc"}]
    /\ DOMAIN fs # {}
    /\ total = None
    /\ DOMAIN outputs = {}

(***************************************************************************)
(* Claims on the documents Project.run_cloc needs (lines 317-349), checked *)
(* under SpecCloc.                                                         *)
(***************************************************************************)
\* the count documents of the descriptor that the directory holds in no form
CountDocumentsAbsent(dir) == AbsentDocuments(TheDescriptor, dir) \cap {"baseline", "cheri"}

\* a call of Project.run_cloc whose hash calls have returned
ProjectCalled ==
    /\ Called
    /\ TheDescriptor.kind = "Project"
    /\ call.git.baseline.rc = 0
    /\ call.git.cheri.rc = 0

\* the call found the renamed diff document
DiffFound == Exists(call.fs_before, DescriptorFiles(TheDescriptor).diff_json)

\* C27: Project.run_cloc returns a report only if the baseline-count and the
\* modified-count document both exist when they are parsed; a call that finds
\* the diff file does not invoke the tool, and if the baseline or the modified
\* document is missing it fails with an assertion and returns no report.
C27_CountDocumentsRequired ==
    /\ (ProjectCalled /\ call.exc = "none") =>
          /\ call.value # None
          /\ CountDocumentsAbsent(call.fs_tool) = {}
    /\ (ProjectCalled /\ DiffFound) =>
          /\ call.tool_calls = 0
          /\ call.fs_tool = call.fs_before
    /\ (ProjectCalled /\ DiffFound /\ CountDocumentsAbsent(call.fs_before) # {}) =>
          /\ call.exc = "AssertionError"
          /\ call.value = None

\* the directory held the diff document alone: the call failed with an
\* assertion, without a run of the tool, and left the directory as it was
C27_Witness ==
    /\ ProjectCalled
    /\ DOMAIN call.fs_before = {DescriptorFiles(TheDescriptor).diff_json}
    /\ call.exc = "AssertionError"
    /\ call.value = None
    /\ call.tool_calls = 0
    /\ fs = call.fs_before

(***************************************************************************)
(* Claims on no_changes_report (lines 99-110), checked under SpecReport.   *)
(***************************************************************************)
\* the call of no_changes_report has ended
NoChangesReportEnded == args \in NoChangesArgs /\ pc # "new"

\* C28 (as stated): no_changes_report(name, languages, summary) returns a
\* report whose baseline and modified summaries are the given summary and
\* whose diff has zero added, removed and modified counts and same equal to
\* the summary, so that changed_loc_abs and changed_files_abs are 0.
C28_NoChangesReport ==
    NoChangesReportEnded =>
        /\ error = "none"
        /\ report # None
        /\ report.baseline = args.cloc_result
        /\ report.cheri = args.cloc_result
        /\ report.diff = [removed  |-> ClocSummary(0, 0, 0, 0),
                          added    |-> ClocSummary(0, 0, 0, 0),
                          modified |-> ClocSummary(0, 0, 0, 0),
                          same     |-> args.cloc_result]
        /\ changed_loc_abs(report) = 0
        /\ changed_files_abs(report) = 0

\* every call of no_changes_report ends on the KeyError of the constructor
\* and returns nothing
NoChangesReportAlwaysRaises ==
    NoChangesReportEnded => (pc = "failed" /\ error = "KeyError" /\ report = None)

\* the call of line 908 has raised
NoChangesReportRaised ==
    /\ NoChangesReportEnded
    /\ args.cloc_result = ClocSummary(29407, 57482, 231071, 184)
    /\ error = "KeyError"

====
